---- MODULE Spec2Model ----
(***************************************************************************)
(* State-machine model of python-stdnet's unit of work:                    *)
(*   stdnet/orm/session.py   SessionModel, Transaction, Session            *)
(*   stdnet/backends/redisb.py  RedisTransaction.emptypipe / _execute      *)
(* One model class (one SessionModel, _model_type 'object') is tracked.    *)
(* Code of the repository that session.py calls but that is not part of    *)
(* the sources at hand (Model.state / ModelState, ServerOperation,         *)
(* BackendDataServer.execute_session, the pipeline's command stack) is     *)
(* modelled from the specification and marked as such where it is defined. *)
(***************************************************************************)
EXTENDS Integers, Sequences, FiniteSets, TLC

\* ------------------------------------------------------------------ bounds
\* number of model instances (Python objects) the application holds
NInst == 2
\* the primary keys the store hands out: one more than there are instances,
\* so that the store's counter can run ahead of the session
MaxId == NInst + 1
\* number of Transaction objects created over a run
MaxTx == 2
\* largest number of delete queries staged on the SessionModel at once
MaxQueries == 2

Instances == 1..NInst
Ids == 1..MaxId

VARIABLES
    inst,      \* inst[i]: the Python object i: id, _dbdata['id'], cached state, session
    sm,        \* the SessionModel: _new, _modified, _loaded, _deleted, _delete_query
    session,   \* the Session: transaction (0 is None), autocommit
    txs,       \* the Transaction objects created so far, in creation order
    last,      \* the name of the call made by the last step
    ret,       \* what the last call returned, when it returns a boolean
    err,       \* the exception the last call raised ("none" when it returned)
    sent,      \* the pipeline the last call had the backend execute, in order
    reply,     \* the ids the backend reported to the last call, in order
    db,        \* the content of the store (the redis database of the model)
    ops,       \* the instances the last commit handed to the index writer
    pipes,     \* the redis pipelines the last store operation staged
    qry,       \* the last query evaluated
    result,    \* the ids the last query yielded
    connection_pools,  \* BackendDataServer.connection_pools: tuple -> pool
    npools,    \* the number of ConnectionPool objects created
    clients,   \* the backend clients built: connection tuple and pool
    signals,   \* the notifications the last call sent, in sending order
    channels,  \* PubSub._channels
    patterns,  \* PubSub._patterns
    calls,     \* the subscribe / unsubscribe calls on the handler, by slot
    zdb,       \* the store of the model with an ordering field
    items,     \* the ids the last query of that model returned, in order
    race,      \* the commits of two sessions on one instance, by session
    subs,      \* the subscriptions the store holds for the handler's connection
    proto      \* the connection of the asynchronous connector and its consumer

vars ==
    <<inst, sm, session, txs, last, ret, err, sent, reply,
      db, ops, pipes, qry, result,
      connection_pools, npools, clients, signals,
      channels, patterns, calls, zdb, items, race, subs, proto>>

\* ------------------------------------------------------- exceptions
\* ValueError('State is deleted. Cannot add.')
ErrDeleted == "ValueError: State is deleted. Cannot add."

\* ValueError('id has changed in the server from {0} to {1}')
ErrIdChanged == "ValueError: id has changed in the server"

\* InvalidTransaction("A transaction is already begun.")
ErrBegun == "InvalidTransaction: A transaction is already begun."

\* InvalidTransaction('Invalid operation. Transaction already closed.')
ErrClosed == "InvalidTransaction: Invalid operation. Transaction already closed."

\* InvalidTransaction('No transaction was started')
ErrNotStarted == "InvalidTransaction: No transaction was started"

\* the failure the backend reports when the pipeline cannot be executed
ErrBackend == "BackendError"

\* ------------------------------------------------------- instance state
\* The identity token of an instance that has no primary key yet: a token
\* generated locally from the object itself.
NewToken(i) == 0 - i

\* Model.state's ModelState(instance): persistent when the store's copy of
\* the primary key ('_dbdata') is present, identity token the primary key
\* when there is one and a local token otherwise.  The deleted mark of an
\* instance outlives a refresh of its state.
ModelState(h, i) ==
    LET o == h.inst[i]
    IN  [has        |-> TRUE,
         persistent |-> o.dbid # 0,
         deleted    |-> o.st.has /\ o.st.deleted,
         iid        |-> IF o.id # 0 THEN o.id ELSE NewToken(i)]

NoState == [has |-> FALSE, persistent |-> FALSE, deleted |-> FALSE, iid |-> 0]

\* instance.state(update): the cached state, computed on first use and
\* recomputed when update is set.  Returns the heap with the state cached.
state(h, i, update) ==
    IF update \/ ~h.inst[i].st.has
    THEN [h EXCEPT !.inst[i].st = ModelState(h, i)]
    ELSE h

\* ------------------------------------------------------- dictionaries
\* An OrderedDict is a sequence of <<key, value>> entries with distinct keys.
Keys(d) == {d[k][1] : k \in DOMAIN d}

Values(d) == {d[k][2] : k \in DOMAIN d}

RECURSIVE ODPop(_, _)
ODPop(d, key) ==
    IF d = <<>> THEN <<>>
    ELSE IF Head(d)[1] = key THEN Tail(d)
    ELSE <<Head(d)>> \o ODPop(Tail(d), key)

\* d[key] = value: a key already present keeps its position
ODSet(d, key, value) ==
    IF key \in Keys(d)
    THEN [k \in DOMAIN d |-> IF d[k][1] = key THEN <<key, value>> ELSE d[k]]
    ELSE Append(d, <<key, value>>)

\* A plain dict is a set of <<key, value>> entries with distinct keys.
DKeys(d) == {e[1] : e \in d}

DValues(d) == {e[2] : e \in d}

DPop(d, key) == {e \in d : e[1] # key}

DSet(d, key, value) == DPop(d, key) \cup {<<key, value>>}

\* ------------------------------------------------------- SessionModel
EmptySM ==
    [new |-> <<>>, modified |-> <<>>, loaded |-> {}, deleted |-> <<>>,
     delete_query |-> <<>>]

\* session.py:89 looks the ModelState object itself up in _modified, whose
\* keys are identity tokens: a state object is never one of them.
StateInModified(st, modified) == FALSE

\* SessionModel.add without the test of the deleted mark
SM_add_unchecked(h, i, modified) ==
    LET h1  == state(h, i, TRUE)
        st  == h1.inst[i].st
        iid == st.iid
    IN  IF st.persistent
        THEN IF modified
             THEN [h1 EXCEPT !.sm.loaded = DPop(@, iid),
                             !.sm.modified = ODSet(@, iid, i)]
             ELSE [h1 EXCEPT !.sm.loaded = DSet(@, iid, i)]
        ELSE [h1 EXCEPT !.sm.new = ODSet(@, iid, i)]

\* SessionModel.add(instance, modified)
SM_add(h, i, modified) ==
    LET h1  == state(h, i, TRUE)
        st  == h1.inst[i].st
        iid == st.iid
    IN  IF st.deleted
        THEN [h1 EXCEPT !.err = ErrDeleted]
        ELSE IF st.persistent
        THEN IF modified
             THEN [h1 EXCEPT !.sm.loaded = DPop(@, iid),
                             !.sm.modified = ODSet(@, iid, i)]
             ELSE IF ~StateInModified(st, h1.sm.modified)
             THEN [h1 EXCEPT !.sm.loaded = DSet(@, iid, i)]
             ELSE h1
        ELSE [h1 EXCEPT !.sm.new = ODSet(@, iid, i)]

\* SessionModel.expunge leaving the loop at the first dictionary that holds
\* the token
SM_expunge_iid_first(h, iid) ==
    IF iid \in Keys(h.sm.new)
    THEN [h EXCEPT !.r = TRUE, !.sm.new = ODPop(@, iid)]
    ELSE IF iid \in Keys(h.sm.modified)
    THEN [h EXCEPT !.r = TRUE, !.sm.modified = ODPop(@, iid)]
    ELSE IF iid \in DKeys(h.sm.loaded)
    THEN [h EXCEPT !.r = TRUE, !.sm.loaded = DPop(@, iid)]
    ELSE IF iid \in Keys(h.sm.deleted)
    THEN [h EXCEPT !.r = TRUE, !.sm.deleted = ODPop(@, iid)]
    ELSE [h EXCEPT !.r = FALSE]

\* SessionModel.expunge(iid): pops the token from each of the four
\* dictionaries that holds it; h.r is the value returned.
SM_expunge_iid(h, iid) ==
    [h EXCEPT !.r = iid \in (Keys(h.sm.new) \cup Keys(h.sm.modified)
                             \cup DKeys(h.sm.loaded) \cup Keys(h.sm.deleted)),
              !.sm.new = ODPop(@, iid),
              !.sm.modified = ODPop(@, iid),
              !.sm.loaded = DPop(@, iid),
              !.sm.deleted = ODPop(@, iid)]

\* SessionModel.expunge(instance)
SM_expunge(h, i) ==
    LET h1 == state(h, i, FALSE)
    IN  SM_expunge_iid(h1, h1.inst[i].st.iid)

\* SessionModel.delete filing every expunged instance under _deleted,
\* persistent or not
SM_delete_always(h, i) ==
    LET h1 == SM_expunge(h, i)
        st == h1.inst[i].st
    IN  IF h1.r
        THEN [h1 EXCEPT !.inst[i].st.deleted = TRUE,
                        !.sm.deleted = ODSet(@, st.iid, i)]
        ELSE h1

\* SessionModel.delete filing a persistent instance under _deleted
\* whether the session held it or not
SM_delete_untracked(h, i) ==
    LET h1 == SM_expunge(h, i)
        st == h1.inst[i].st
    IN  IF st.persistent
        THEN [h1 EXCEPT !.inst[i].st.deleted = TRUE,
                        !.sm.deleted = ODSet(@, st.iid, i)]
        ELSE IF h1.r THEN [h1 EXCEPT !.inst[i].session = FALSE]
        ELSE h1

\* SessionModel.delete(instance)
SM_delete(h, i) ==
    LET h1 == SM_expunge(h, i)
        st == h1.inst[i].st
    IN  IF h1.r
        THEN IF st.persistent
             THEN [h1 EXCEPT !.inst[i].st.deleted = TRUE,
                             !.sm.deleted = ODSet(@, st.iid, i)]
             ELSE [h1 EXCEPT !.inst[i].session = FALSE]
        ELSE h1

\* SessionModel.pre_commit building the query and keeping _deleted
SM_pre_commit_keep(h) ==
    LET d == Values(h.sm.deleted)
    IN  IF d # {}
        THEN [h EXCEPT !.sm.delete_query =
                           Append(@, [insts |-> d,
                                      ids |-> {h.inst[i].id : i \in d}])]
        ELSE h

\* SessionModel.pre_commit: one delete query over the deleted instances
SM_pre_commit(h) ==
    LET d == Values(h.sm.deleted)
    IN  IF d # {}
        THEN [h EXCEPT !.sm.deleted = <<>>,
                       !.sm.delete_query =
                           Append(@, [insts |-> d,
                                      ids |-> {h.inst[i].id : i \in d}])]
        ELSE h

\* SessionModel.server_update taking the reported id without comparing it
SM_server_update_overwrite(h, i, id) ==
    LET h0 == state(h, i, FALSE)
        st == h0.inst[i].st
        h1 == SM_expunge(h0, i)
    IN  IF ~st.deleted
        THEN IF id # 0
             THEN SM_add([h1 EXCEPT !.inst[i].id = id,
                                    !.inst[i].dbid = id], i, FALSE)
             ELSE SM_add(h1, i, FALSE)
        ELSE [h1 EXCEPT !.inst[i].st.deleted = TRUE]

\* SessionModel.server_update adding the instance back as modified
SM_server_update_dirty(h, i, id) ==
    LET h0 == state(h, i, FALSE)
        st == h0.inst[i].st
        h1 == SM_expunge(h0, i)
    IN  IF ~st.deleted
        THEN IF id # 0
             THEN IF st.persistent /\ h1.inst[i].id # id
                  THEN [h1 EXCEPT !.err = ErrIdChanged]
                  ELSE LET newid == IF st.persistent THEN h1.inst[i].id ELSE id
                       IN  SM_add([h1 EXCEPT !.inst[i].id = newid,
                                             !.inst[i].dbid = newid], i, TRUE)
             ELSE SM_add(h1, i, TRUE)
        ELSE [h1 EXCEPT !.inst[i].st.deleted = TRUE]

\* SessionModel.server_update(instance, id)
SM_server_update(h, i, id) ==
    LET h0 == state(h, i, FALSE)
        st == h0.inst[i].st
        h1 == SM_expunge(h0, i)
    IN  IF ~st.deleted
        THEN IF id # 0
             THEN IF st.persistent /\ h1.inst[i].id # id
                  THEN [h1 EXCEPT !.err = ErrIdChanged]
                  ELSE LET newid == IF st.persistent THEN h1.inst[i].id ELSE id
                       IN  SM_add([h1 EXCEPT !.inst[i].id = newid,
                                             !.inst[i].dbid = newid], i, FALSE)
             ELSE SM_add(h1, i, FALSE)
        ELSE [h1 EXCEPT !.inst[i].st.deleted = TRUE]

\* SessionModel.__iter__: the new, then the modified, then the deleted
\* instances, each in insertion order
SM_iter(m) ==
    [k \in 1..Len(m.new) |-> m.new[k][2]]
    \o [k \in 1..Len(m.modified) |-> m.modified[k][2]]
    \o [k \in 1..Len(m.deleted) |-> m.deleted[k][2]]

\* SessionModel.post_commit(ids): zip(self, ids) pairs the instances the
\* iterator yields with the ids, lazily.  server_update pops the instance it
\* is given from the dictionary under iteration and files it under _loaded,
\* so the next instance the iterator yields is the first one still held.
RECURSIVE SM_post_commit(_, _)
SM_post_commit(h, ids) ==
    IF ids = <<>> \/ SM_iter(h.sm) = <<>> \/ h.err # "none"
    THEN h
    ELSE SM_post_commit(SM_server_update(h, Head(SM_iter(h.sm)), Head(ids)),
                        Tail(ids))

\* ------------------------------------------------------- Session
\* Session.add(instance, modified)
Session_add(h, i, modified) ==
    SM_add([h EXCEPT !.inst[i].session = TRUE], i, modified)

\* Session.delete(instance), instance a model instance
Session_delete(h, i) ==
    SM_delete([h EXCEPT !.inst[i].session = TRUE], i)

\* Session.delete(query): the constructed query is staged as it is
Session_delete_query(h, q) ==
    [h EXCEPT !.sm.delete_query = Append(@, [insts |-> {}, ids |-> q])]

\* Transaction.is_open
is_open(h, t) == ~h.txs[t].result

\* Session.begin without the test for a transaction in progress
Session_begin_unchecked(h) ==
    [h EXCEPT !.txs = Append(@, [session |-> TRUE, result |-> FALSE]),
              !.session.transaction = Len(h.txs) + 1]

\* Session.begin()
Session_begin(h) ==
    IF h.session.transaction # 0
    THEN [h EXCEPT !.err = ErrBegun]
    ELSE [h EXCEPT !.txs = Append(@, [session |-> TRUE, result |-> FALSE]),
                   !.session.transaction = Len(h.txs) + 1]

\* Transaction.rollback()
Transaction_rollback(h, t) == h

\* Transaction.close leaving the staged delete queries on the SessionModel
Transaction_close_keep(h, t) ==
    [h EXCEPT !.session.transaction = 0,
              !.txs[t].session = FALSE]

\* a notification as its receivers see it: the signal, the sender, whether
\* the transaction passed along still refers to its session, the number of
\* instances the SessionModel still holds as new or modified, and the ids
\* passed along
Signal(h, t, signal, sender, ids) ==
    [signal |-> signal, sender |-> sender, open |-> h.txs[t].session,
     staged |-> Len(h.sm.new) + Len(h.sm.modified), ids |-> ids]

\* signal.send(sender, ...)
send(h, t, signal, sender, ids) ==
    [h EXCEPT !.signals = Append(@, Signal(h, t, signal, sender, ids))]

\* Transaction.close leaving the session with its transaction
Transaction_close_held(h, t) ==
    [send(h, t, "post_commit", "Session", {})
        EXCEPT !.sm.delete_query = <<>>,
               !.txs[t].session = FALSE]

\* Transaction.close()
Transaction_close(h, t) ==
    [send(h, t, "post_commit", "Session", {})
        EXCEPT !.sm.delete_query = <<>>,
               !.session.transaction = 0,
               !.txs[t].session = FALSE]

\* the loop of Transaction.post_commit at the response of the delete query
\* of the commit: the ids deleted, when a delete was executed
DeleteResponse(h, t) ==
    LET ids == UNION {h.sent[k].ids :
                         k \in {l \in DOMAIN h.sent : h.sent[l].cmd = "delete"}}
    IN  IF ids = {} THEN h ELSE send(h, t, "post_delete", "model", ids)

\* the loop of Transaction.post_commit at the response of the saves, the
\* instances being reconciled (h), and then at the one of the delete query
SaveResponse(h, t, response) ==
    IF h.err # "none" THEN h
    ELSE DeleteResponse(send(h, t, "post_commit", "model",
                             {response[k] : k \in DOMAIN response}),
                        t)

\* Transaction.post_commit(response, commands); response is the list of ids
\* the backend reports for the saved instances of the model
Transaction_post_commit(h, t, response) ==
    LET h1 == [h EXCEPT !.txs[t].result = TRUE]
        h2 == Transaction_close(h1, t)
    IN  IF response = <<>> THEN DeleteResponse(h2, t)
        ELSE SaveResponse(SM_post_commit(h2, response), t, response)

\* ------------------------------------------------------- backend
Command(c, i, q) == [cmd |-> c, inst |-> i, ids |-> q]

\* The pipeline of a commit: the transaction marker, then one save per
\* instance the SessionModel iterates over, then the staged delete queries
\* of the model joined into one delete.
CommandStack(h) ==
    LET it == SM_iter(h.sm)
        dq == h.sm.delete_query
    IN  <<Command("MULTI", 0, {})>>
        \o [k \in 1..Len(it) |-> Command("save", it[k], {})]
        \o (IF dq # <<>>
            THEN <<Command("delete", 0,
                           UNION {dq[k].ids : k \in DOMAIN dq})>>
            ELSE <<>>)

\* emptypipe counting the transaction marker as a staged command
emptypipe_nomarker(command_stack) == Len(command_stack) = 0

\* RedisTransaction.emptypipe
emptypipe(command_stack) == Len(command_stack) <= 1

\* BackendDataServer.execute_session(session, callback): stage the pending
\* writes in one pipeline, execute it unless it is empty, and hand the
\* response to the callback.  fail: the backend reports a failure of the
\* pipeline, which is raised to the caller of commit.
execute_session(h, t, fail, ids) ==
    LET stack == CommandStack(h)
    IN  IF emptypipe(stack)
        THEN Transaction_post_commit(h, t, <<>>)
        ELSE IF fail
        THEN [h EXCEPT !.sent = stack, !.err = ErrBackend]
        ELSE Transaction_post_commit([h EXCEPT !.sent = stack, !.reply = ids],
                                     t, ids)

\* Transaction.commit()
Transaction_commit(h, t, fail, ids) ==
    IF ~is_open(h, t)
    THEN [h EXCEPT !.err = ErrClosed]
    ELSE execute_session(SM_pre_commit(h), t, fail, ids)

\* Session.commit beginning a transaction whenever none is in progress
Session_commit_begin(h, fail, ids) ==
    IF h.session.transaction = 0
    THEN LET h1 == Session_begin(h)
         IN  Transaction_commit(h1, h1.session.transaction, fail, ids)
    ELSE Transaction_commit(h, h.session.transaction, fail, ids)

\* Session.commit()
Session_commit(h, fail, ids) ==
    IF h.session.transaction = 0
    THEN IF ~h.session.autocommit
         THEN LET h1 == Session_begin(h)
              IN  Transaction_commit(h1, h1.session.transaction, fail, ids)
         ELSE [h EXCEPT !.err = ErrNotStarted]
    ELSE Transaction_commit(h, h.session.transaction, fail, ids)

\* The ids a backend can report for the instances staged by a commit, one
\* id per instance.  An instance the store does not hold yet gets a primary
\* key from the store's counter: the keys handed out in one commit are
\* consecutive and no instance has them.  For an instance it holds the
\* store reports its key, or the next key when store and session have come
\* apart.
Responses(h) ==
    LET it    == SM_iter(SM_pre_commit(h).sm)
        used  == {h.inst[j].id : j \in Instances}
        fresh == {k \in 1..Len(it) : h.inst[it[k]].dbid = 0}
        rank(k) == Cardinality({l \in fresh : l < k})
    IN  {r \in [1..Len(it) -> Ids] :
            \E base \in Ids :
                \A k \in 1..Len(it) :
                    IF k \in fresh
                    THEN r[k] = base + rank(k) /\ r[k] \notin used
                    ELSE r[k] \in {h.inst[it[k]].id,
                                   (h.inst[it[k]].id % MaxId) + 1}}

\* ======================================================= the store
\* One model class is stored: fields 'name' (unique, indexed) and 'group'
\* (indexed, not unique), no ordering field, so that the plain-set family of
\* commands is used ('s' prefix in redisb.py).
\* number of values a field can take
NVal == 2

Vals == 1..NVal

\* the values the store has index keys for: one more than the commits of
\* the store machine write
FieldVals == 1..(NVal + 1)

\* None, as a field value, as an id and as a member of a set
None == 0

\* the configured expiry of temporary keys, in seconds
expire == 1

\* largest number of temporary keys one query creates
MaxTmp == 6

IndexFields == <<"name", "group">>

unique(name) == name \in {"id", "name"}

\* meta.basekey(...) and meta.tempkey(): keys are <<region, field, part>>
basekey(region, name, part) == <<region, name, part>>

IdSet == basekey("id", "", 0)

UniKey(name) == basekey("uni", name, 0)

IdxKey(name, value) == basekey("idx", name, value)

tempkey(n) == basekey("tmp", "", n)

TempKeys == {tempkey(n) : n \in 1..MaxTmp}

\* the keys that hold sets
SetKeys ==
    {IdSet} \cup {IdxKey("group", v) : v \in FieldVals} \cup TempKeys

NoHash == [name |-> None, group |-> None]

\* The content of the database: the object hashes (NoHash: no such key),
\* the sets (an empty set is a key that does not exist), the UNI:name
\* hash (None: no such field), the time to live of each key (0: none) and
\* the counter primary keys are drawn from.
EmptyStore ==
    [obj     |-> [id \in Ids |-> NoHash],
     set     |-> [k \in SetKeys |-> {}],
     uni     |-> [v \in FieldVals |-> None],
     ttl     |-> [k \in SetKeys |-> 0],
     counter |-> 0]

\* ------------------------------------------------------- redis commands
Cmd(c, key, id, value, src, data, members) ==
    [cmd |-> c, key |-> key, id |-> id, value |-> value, src |-> src,
     data |-> data, members |-> members]

HMSET(id, data) ==
    Cmd("hmset", basekey("obj", "", id), id, None, <<>>, data, {})

DEL(id) ==
    Cmd("delete", basekey("obj", "", id), id, None, <<>>, NoHash, {})

SADD(key, id) == Cmd("sadd", key, id, None, <<>>, NoHash, {})

SREM(key, id) == Cmd("srem", key, id, None, <<>>, NoHash, {})

HSET(key, value, id) == Cmd("hset", key, id, value, <<>>, NoHash, {})

HDEL(key, value) == Cmd("hdel", key, None, value, <<>>, NoHash, {})

\* delpattern(meta.tempkey('*'))
DELPATTERN == Cmd("delpattern", tempkey(0), None, None, <<>>, NoHash, {})

EXPIRE(key, seconds) ==
    Cmd("expire", key, None, seconds, <<>>, NoHash, {})

SINTERSTORE(key, keys) ==
    Cmd("sinterstore", key, None, None, keys, NoHash, {})

SUNIONSTORE(key, keys) ==
    Cmd("sunionstore", key, None, None, keys, NoHash, {})

SDIFFSTORE(key, keys) ==
    Cmd("sdiffstore", key, None, None, keys, NoHash, {})

\* SORT qset BY nosort GET pattern STORE storeset; members: the ids the
\* pattern dereferences the members of qset to
SORT(qset, members, storeset) ==
    Cmd("sort", storeset, None, None, <<qset>>, NoHash, members)

\* SORT key BY pattern STORE store: the members of key, sorted
SORTBY(key, store) == Cmd("sortby", store, None, None, <<key>>, NoHash, {})

\* the members of the set at a key; a key that does not hold a set is empty
smembers(d, key) == IF key \in SetKeys THEN d.set[key] ELSE {}

RECURSIVE Inter(_, _)
Inter(d, keys) ==
    IF Len(keys) = 1 THEN smembers(d, keys[1])
    ELSE smembers(d, keys[1]) \cap Inter(d, Tail(keys))

Union(d, keys) == UNION {smembers(d, keys[k]) : k \in DOMAIN keys}

Diff(d, keys) ==
    smembers(d, keys[1]) \ UNION {smembers(d, keys[k]) : k \in 2..Len(keys)}

\* a set written to a key: the key loses its time to live
Store(d, key, members) ==
    [d EXCEPT !.set[key] = members, !.ttl[key] = 0]

\* the effect of one command on the database
Apply(d, c) ==
    CASE c.cmd = "hmset"  -> [d EXCEPT !.obj[c.id] = c.data]
      [] c.cmd = "delete" -> [d EXCEPT !.obj[c.id] = NoHash]
      [] c.cmd = "sadd"   -> [d EXCEPT !.set[c.key] = @ \cup {c.id}]
      [] c.cmd = "srem"   ->
            IF c.key \notin SetKeys THEN d
            ELSE IF d.set[c.key] \ {c.id} = {}
            THEN Store(d, c.key, {})
            ELSE [d EXCEPT !.set[c.key] = @ \ {c.id}]
      [] c.cmd = "hset"   -> [d EXCEPT !.uni[c.value] = c.id]
      [] c.cmd = "hdel"   ->
            IF c.value \in FieldVals
            THEN [d EXCEPT !.uni[c.value] = None] ELSE d
      [] c.cmd = "delpattern" ->
            [d EXCEPT !.set = [k \in SetKeys |->
                                  IF k \in TempKeys THEN {} ELSE d.set[k]],
                      !.ttl = [k \in SetKeys |->
                                  IF k \in TempKeys THEN 0 ELSE d.ttl[k]]]
      [] c.cmd = "expire" ->
            IF smembers(d, c.key) # {}
            THEN [d EXCEPT !.ttl[c.key] = c.value] ELSE d
      [] c.cmd = "sinterstore" -> Store(d, c.key, Inter(d, c.src))
      [] c.cmd = "sunionstore" -> Store(d, c.key, Union(d, c.src))
      [] c.cmd = "sdiffstore"  -> Store(d, c.key, Diff(d, c.src))
      [] c.cmd = "sort"        -> Store(d, c.key, c.members)
      [] c.cmd = "sortby"      -> Store(d, c.key, smembers(d, c.src[1]))
      [] OTHER -> d

\* pipe.execute(): the staged commands applied in staging order, as a unit
RECURSIVE Execute(_, _)
Execute(d, commands) ==
    IF commands = <<>> THEN d
    ELSE Execute(Apply(d, Head(commands)), Tail(commands))

\* ------------------------------------------------------- index writer
\* BackendDataServer._loadfields(obj, toload): the stored values of the
\* fields named, read from the object hash at once, not through the pipeline
loadfields(d, id, toload) ==
    [f \in toload |-> d.obj[id][f]]

\* dict.get(name, default)
Get(fields, name, default) ==
    IF name \in DOMAIN fields THEN fields[name] ELSE default

\* the loop of _save_object writing the new value of an index entry before
\* it removes the old one
RECURSIVE SaveIndices_setfirst(_, _, _, _)
SaveIndices_setfirst(indices, fields, obid, newid) ==
    IF indices = <<>> THEN <<>>
    ELSE LET e        == Head(indices)
             oldvalue == Get(fields, e.field, e.oldvalue)
         IN  (IF unique(e.field)
              THEN <<HSET(UniKey(e.field), e.value, obid)>>
                   \o (IF ~newid THEN <<HDEL(UniKey(e.field), oldvalue)>>
                       ELSE <<>>)
              ELSE <<SADD(IdxKey(e.field, e.value), obid)>>
                   \o (IF ~newid
                       THEN <<SREM(IdxKey(e.field, oldvalue), obid)>>
                       ELSE <<>>))
             \o SaveIndices_setfirst(Tail(indices), fields, obid, newid)

\* the loop of _save_object over the index entries: the commands staged
RECURSIVE SaveIndices(_, _, _, _)
SaveIndices(indices, fields, obid, newid) ==
    IF indices = <<>> THEN <<>>
    ELSE LET e        == Head(indices)
             oldvalue == Get(fields, e.field, e.oldvalue)
         IN  (IF unique(e.field)
              THEN (IF ~newid THEN <<HDEL(UniKey(e.field), oldvalue)>>
                    ELSE <<>>)
                   \o <<HSET(UniKey(e.field), e.value, obid)>>
              ELSE (IF ~newid
                    THEN <<SREM(IdxKey(e.field, oldvalue), obid)>>
                    ELSE <<>>)
                   \o <<SADD(IdxKey(e.field, e.value), obid)>>)
             \o SaveIndices(Tail(indices), fields, obid, newid)

\* BackendDataServer._save_object(obj, newid, transaction): the commands it
\* appends to the pipeline of the transaction.  obj: id, cleaned_data,
\* indices (entries field, value, oldvalue) and toload.
save_object(d, obj, newid) ==
    LET fields == IF newid \/ obj.indices # <<>>
                  THEN loadfields(d, obj.id, obj.toload)
                  ELSE <<>>
    IN  <<HMSET(obj.id, obj.data)>>
        \o (IF newid THEN <<SADD(IdSet, obj.id)>> ELSE <<>>)
        \o (IF obj.indices # <<>>
            THEN (IF ~newid THEN <<DELPATTERN>> ELSE <<>>)
                 \o SaveIndices(obj.indices, fields, obj.id, newid)
            ELSE <<>>)

\* the commands _delete_object stages for the index fields found in dbdata
RECURSIVE DeleteKnown(_, _, _)
DeleteKnown(names, dbdata, id) ==
    IF names = <<>> THEN <<>>
    ELSE LET name == Head(names)
         IN  (IF name \notin DOMAIN dbdata THEN <<>>
              ELSE IF unique(name)
              THEN <<HDEL(UniKey(name), dbdata[name])>>
              ELSE <<SREM(IdxKey(name, dbdata[name]), id)>>)
             \o DeleteKnown(Tail(names), dbdata, id)

\* _delete_object removing the hash and the id of the all-ids container and
\* leaving the index entries in place
delete_object_noindex(d, obj) == <<DEL(obj.id), SREM(IdSet, obj.id)>>

\* BackendDataServer._delete_object(obj, transaction): the commands it
\* appends to the pipeline.  obj: the id in _dbdata and the field values
\* _dbdata holds; the index fields it does not hold are read from the store.
delete_object(d, obj) ==
    LET id     == obj.id
        toload == SelectSeq(IndexFields, LAMBDA n : n \notin DOMAIN obj.dbdata)
        fields == loadfields(d, id, {toload[k] : k \in DOMAIN toload})
    IN  <<DEL(id), SREM(IdSet, id)>>
        \o DeleteKnown(IndexFields, obj.dbdata, id)
        \o DeleteKnown(toload, fields, id)

\* ------------------------------------------------------- staged instances
Entry(field, value, oldvalue) ==
    [field |-> field, value |-> value, oldvalue |-> oldvalue]

\* What the session hands to the writer for an instance it saves: the
\* cleaned data and one index entry per indexed field to write.  A new
\* instance has an entry for every indexed field and no old value; an
\* instance read from the store has an entry for every indexed field whose
\* value changed, with the value it was read with; an instance whose
\* '_dbdata' holds the id only has an entry for every indexed field, and the
\* old values are to be loaded from the store.
cleaned(d, op) ==
    LET data    == [name |-> op.name, group |-> op.group]
        stored  == d.obj[op.id]
        local   == op.kind = "update" /\ op.known
        changed == SelectSeq(IndexFields,
                             LAMBDA f : ~local \/ data[f] # stored[f])
    IN  [id      |-> op.id,
         data    |-> data,
         indices |-> [k \in DOMAIN changed |->
                         Entry(changed[k], data[changed[k]],
                               IF local THEN stored[changed[k]] ELSE None)],
         toload  |-> IF op.kind = "update" /\ ~op.known
                     THEN {changed[k] : k \in DOMAIN changed} ELSE {},
         dbdata  |-> <<>>]

\* What the delete query hands to the writer for an instance it deletes:
\* the id and the field values '_dbdata' holds.
loaded(d, op) ==
    [id      |-> op.id,
     data    |-> NoHash,
     indices |-> <<>>,
     toload  |-> {},
     dbdata  |-> IF op.known
                 THEN [f \in {"name", "group"} |-> d.obj[op.id][f]]
                 ELSE <<>>]

\* the instance the writer is given for a staged operation
StagedObject(d, op) ==
    [kind |-> op.kind,
     obj  |-> IF op.kind = "delete" THEN loaded(d, op) ELSE cleaned(d, op)]

\* the commands the writer stages for one staged instance
Write(d, s) ==
    IF s.kind = "delete" THEN delete_object(d, s.obj)
    ELSE save_object(d, s.obj, s.kind = "new")

\* the pipeline of a commit: the writer's commands for every staged
\* instance, in staging order
RECURSIVE StagePipeline(_, _)
StagePipeline(d, staged) ==
    IF staged = <<>> THEN <<>>
    ELSE Write(d, Head(staged)) \o StagePipeline(d, Tail(staged))

\* ======================================================= query compiler
\* ValueError('Not available')
ErrNotAvailable == "ValueError: Not available"

\* ValueError('Lookup {0} Not available')
ErrLookup == "ValueError: Lookup Not available"

\* ValueError('Indexes in a different database')
ErrDatabase == "ValueError: Indexes in a different database"

\* no key
NoKey == basekey("", "", 0)

\* the index of the database the pipeline of the query works on (pipe.db)
PipeDb == 0

\* a predicate of a query: field name, lookup, values, unique flag
Predicate(name, lookup, values) ==
    [name |-> name, lookup |-> lookup, values |-> values,
     unique |-> unique(name)]

\* the exact-match predicate as the query layer hands it to the compiler:
\* an 'in' lookup over the one value
exact(name, value) == Predicate(name, "in", <<value>>)

\* a query: filters, excludes, joins and whether an ordering is asked for
Query(fargs, eargs, queries, ordering) ==
    [fargs |-> fargs, eargs |-> eargs, queries |-> queries,
     ordering |-> ordering]

NoQuery == Query(<<>>, <<>>, <<>>, FALSE)

\* qs.simple: every predicate is a filter over the primary key or a unique
\* field, so the ids can be resolved without the set engine
simple(q) ==
    /\ q.fargs # <<>>
    /\ \A k \in DOMAIN q.fargs : q.fargs[k].unique
    /\ q.eargs = <<>>
    /\ q.queries = <<>>

\* redispy.hget(UNI key, value)
hget(d, value) == IF value \in FieldVals THEN d.uni[value] ELSE None

SISMEMBER(key, id) == Cmd("sismember", key, id, None, <<>>, NoHash, {})

MOVE(key, database) == Cmd("move", key, None, database, <<>>, NoHash, {})

\* add2set.__call__(key, id) of a model without ordering, idsave true
add2set(key, id) == SADD(key, id)

\* The compiler at work: the commands staged on the pipeline, the number of
\* temporary keys made, the keys collected by the running loop, the key
\* returned by the last step and the exception raised.
NewBuild ==
    [pipe |-> <<>>, n |-> 0, keys |-> <<>>, key |-> NoKey, err |-> "none",
     simple |-> FALSE, list |-> <<>>]

\* _unique_set filling its temporary key without scheduling its expiry
RedisQuery_unique_set_noexpire(d, b, name, values) ==
    LET key == tempkey(b.n + 1)
        ids == [k \in DOMAIN values |->
                   IF name = "id" THEN values[k] ELSE hget(d, values[k])]
    IN  [b EXCEPT !.n = @ + 1,
                  !.pipe = @ \o [k \in DOMAIN ids |-> add2set(key, ids[k])],
                  !.key = key]

\* RedisQuery._unique_set(name, values)
RedisQuery_unique_set(d, b, name, values) ==
    LET key == tempkey(b.n + 1)
        ids == [k \in DOMAIN values |->
                   IF name = "id" THEN values[k] ELSE hget(d, values[k])]
    IN  [b EXCEPT !.n = @ + 1,
                  !.pipe = @ \o [k \in DOMAIN ids |-> add2set(key, ids[k])]
                             \o <<EXPIRE(key, expire)>>,
                  !.key = key]

\* the loop of _query taking, for several values of a field that is not
\* unique, the index container of the first value only
RECURSIVE QueryArgs_first(_, _, _)
QueryArgs_first(d, b, qargs) ==
    IF qargs = <<>> \/ b.err # "none" THEN b
    ELSE LET q == Head(qargs)
             u == RedisQuery_unique_set(d, b, q.name, q.values)
             b1 == IF q.unique
                   THEN IF q.lookup = "in"
                        THEN [u EXCEPT !.keys = Append(@, u.key)]
                        ELSE [b EXCEPT !.err = ErrNotAvailable]
                   ELSE [b EXCEPT !.keys = Append(@, IdxKey(q.name, q.values[1]))]
         IN  QueryArgs_first(d, b1, Tail(qargs))

\* the body of the loop of RedisQuery._query over the predicates
RECURSIVE QueryArgs(_, _, _)
QueryArgs(d, b, qargs) ==
    IF qargs = <<>> \/ b.err # "none" THEN b
    ELSE LET q == Head(qargs)
             u == RedisQuery_unique_set(d, b, q.name, q.values)
             tkey == tempkey(b.n + 1)
             insersept == [k \in DOMAIN q.values |-> IdxKey(q.name, q.values[k])]
             b1 == IF q.unique
                   THEN IF q.lookup = "in"
                        THEN [u EXCEPT !.keys = Append(@, u.key)]
                        ELSE [b EXCEPT !.err = ErrNotAvailable]
                   ELSE IF Len(q.values) = 1
                   THEN [b EXCEPT !.keys = Append(@, IdxKey(q.name, q.values[1]))]
                   ELSE IF q.lookup = "in"
                   THEN [b EXCEPT !.n = @ + 1,
                                  !.pipe = @ \o <<SUNIONSTORE(tkey, insersept),
                                                  EXPIRE(tkey, expire)>>,
                                  !.keys = Append(@, tkey)]
                   ELSE [b EXCEPT !.n = @ + 1, !.err = ErrLookup]
         IN  QueryArgs(d, b1, Tail(qargs))

\* self.intersect / self.union staging the command on the pipeline
setoperation(setoper, key, keys) ==
    IF setoper = "intersect" THEN SINTERSTORE(key, keys)
    ELSE SUNIONSTORE(key, keys)

\* the end of _query forgetting the key it was given when the loop
\* collected no key
CombineKeys_nokey(b, setoper, key) ==
    IF b.err # "none" THEN b
    ELSE IF b.keys = <<>> THEN [b EXCEPT !.key = NoKey]
    ELSE [b EXCEPT !.n = @ + 1,
                   !.pipe = @ \o <<setoperation(setoper, tempkey(b.n + 1),
                                                b.keys),
                                   EXPIRE(tempkey(b.n + 1), expire)>>,
                   !.key = tempkey(b.n + 1)]

\* the end of _query combining the keys one at a time, each set operation
\* taking the key made so far and the next key collected
RECURSIVE CombineEach(_, _, _, _)
CombineEach(b, setoper, key, k) ==
    IF k > Len(b.keys) THEN [b EXCEPT !.key = key]
    ELSE IF key = NoKey THEN CombineEach(b, setoper, b.keys[k], k + 1)
    ELSE CombineEach(
             [b EXCEPT !.n = @ + 1,
                       !.pipe = @ \o <<setoperation(setoper, tempkey(b.n + 1),
                                                    <<b.keys[k], key>>),
                                       EXPIRE(tempkey(b.n + 1), expire)>>],
             setoper, tempkey(b.n + 1), k + 1)

CombineKeys_each(b, setoper, key) ==
    IF b.err # "none" THEN b ELSE CombineEach(b, setoper, key, 1)

\* the end of RedisQuery._query: the keys collected by the loop (b.keys)
\* and the key given combined into one key
CombineKeys(b, setoper, key) ==
    IF b.err # "none" THEN b
    ELSE IF b.keys = <<>> THEN [b EXCEPT !.key = key]
    ELSE IF key # NoKey
    THEN [b EXCEPT !.n = @ + 1,
                   !.pipe = @ \o <<setoperation(setoper, tempkey(b.n + 1),
                                                Append(b.keys, key)),
                                   EXPIRE(tempkey(b.n + 1), expire)>>,
                   !.key = tempkey(b.n + 1)]
    ELSE IF Len(b.keys) > 1
    THEN [b EXCEPT !.n = @ + 1,
                   !.pipe = @ \o <<setoperation(setoper, tempkey(b.n + 1),
                                                b.keys),
                                   EXPIRE(tempkey(b.n + 1), expire)>>,
                   !.key = tempkey(b.n + 1)]
    ELSE [b EXCEPT !.key = b.keys[1]]

\* RedisQuery._query(qargs, setoper, key); qs.filter_sets is empty
RedisQuery_query(d, b, qargs, setoper, key) ==
    CombineKeys(QueryArgs(d, [b EXCEPT !.keys = <<>>], qargs), setoper, key)

\* the key that holds the result of the query joined, in its own database
JoinKey(k) == basekey("join", "", k)

\* build_from_query moving the set of a join made in another database into
\* the database of the pipeline instead of rejecting the join
RECURSIVE build_from_query_move(_, _, _, _)
build_from_query_move(d, b, queries, k) ==
    IF k > Len(queries)
    THEN IF Len(b.keys) = 1 THEN [b EXCEPT !.key = b.keys[1]]
         ELSE [b EXCEPT !.n = @ + 1,
                        !.pipe = @ \o <<SINTERSTORE(tempkey(b.n + 1), b.keys),
                                        EXPIRE(tempkey(b.n + 1), expire)>>,
                        !.key = tempkey(b.n + 1)]
    ELSE LET q    == queries[k]
             qset == JoinKey(k)
             skey == tempkey(b.n + 1)
             mv   == IF q.db # PipeDb
                     THEN <<MOVE(qset, PipeDb), EXPIRE(qset, expire)>>
                     ELSE <<>>
         IN  build_from_query_move(
                 d,
                 [b EXCEPT !.n = @ + 1,
                           !.pipe = @ \o mv \o <<SORT(qset, q.ids, skey),
                                                 EXPIRE(skey, expire)>>,
                           !.keys = Append(@, skey)],
                 queries, k + 1)

\* RedisQuery.build_from_query(queries), from the k-th join on.  A join:
\* the database its model lives in and the ids of this model its result
\* refers to.  The query joined is compiled and executed in its own
\* database before anything is staged here.
RECURSIVE build_from_query(_, _, _, _)
build_from_query(d, b, queries, k) ==
    IF k > Len(queries)
    THEN IF Len(b.keys) = 1 THEN [b EXCEPT !.key = b.keys[1]]
         ELSE [b EXCEPT !.n = @ + 1,
                        !.pipe = @ \o <<SINTERSTORE(tempkey(b.n + 1), b.keys),
                                        EXPIRE(tempkey(b.n + 1), expire)>>,
                        !.key = tempkey(b.n + 1)]
    ELSE LET q    == queries[k]
             qset == JoinKey(k)
             skey == tempkey(b.n + 1)
         IN  IF q.db # PipeDb
             THEN [b EXCEPT !.err = ErrDatabase]
             ELSE build_from_query(
                      d,
                      [b EXCEPT !.n = @ + 1,
                                !.pipe = @ \o <<SORT(qset, q.ids, skey),
                                                EXPIRE(skey, expire)>>,
                                !.keys = Append(@, skey)],
                      queries, k + 1)

\* the ids the 'simple' path of build collects from the filters
RECURSIVE SimpleIds(_, _)
SimpleIds(d, fargs) ==
    IF fargs = <<>> THEN <<>>
    ELSE LET q   == Head(fargs)
             ids == IF q.name = "id" THEN q.values
                    ELSE [k \in DOMAIN q.values |-> hget(d, q.values[k])]
         IN  SelectSeq(ids, LAMBDA id : id # None) \o SimpleIds(d, Tail(fargs))

\* the end of build leaving the key of the excludes aside
BuildDiff_nodiff(b1, b2) ==
    IF b2.err # "none" THEN b2 ELSE [b2 EXCEPT !.key = b1.key]

\* the end of RedisQuery.build: key1 (b1.key) less key2 (b2.key)
BuildDiff(b1, b2) ==
    IF b2.err # "none" THEN b2
    ELSE IF b2.key # NoKey
    THEN [b2 EXCEPT !.n = @ + 1,
                    !.pipe = @ \o <<SDIFFSTORE(tempkey(b2.n + 1),
                                               <<b1.key, b2.key>>),
                                    EXPIRE(tempkey(b2.n + 1), expire)>>,
                    !.key = tempkey(b2.n + 1)]
    ELSE [b2 EXCEPT !.key = b1.key]

\* key2 of RedisQuery.build, and the difference
BuildExcludes(d, q, b1) ==
    IF b1.err # "none" THEN b1
    ELSE BuildDiff(b1, RedisQuery_query(d, b1, q.eargs, "union", NoKey))

\* key1 of RedisQuery.build, from the key of the ids (b.key), and the rest
BuildFilters(d, q, b) ==
    IF b.err # "none" THEN b
    ELSE BuildExcludes(d, q,
                       RedisQuery_query(d, b, q.fargs, "intersect", b.key))

\* the 'simple' path of RedisQuery.build, allids being given
BuildSimple(d, allids) ==
    [NewBuild EXCEPT
        !.simple = TRUE,
        !.pipe = [k \in DOMAIN allids |-> SISMEMBER(IdSet, allids[k])],
        !.list = SelectSeq(allids, LAMBDA id : id \in smembers(d, IdSet))]

\* the set-engine path of RedisQuery.build
BuildSet(d, q) ==
    BuildFilters(d, q,
                 IF q.queries # <<>>
                 THEN build_from_query(d, NewBuild, q.queries, 1)
                 ELSE [NewBuild EXCEPT !.key = IdSet])

\* RedisQuery.build(fargs, eargs, queries)
build(d, q) ==
    IF simple(q)
    THEN BuildSimple(d, SimpleIds(d, q.fargs))
    ELSE BuildSet(d, q)

\* RedisQuery.execute_query() of a query built without a timeout: the
\* pipeline of the set-engine path is executed; the pipeline of the simple
\* path was executed by build
execute_query(d, b) ==
    IF ~b.simple /\ b.err = "none" THEN Execute(d, b.pipe) ELSE d

\* order() giving the time to live to the key it sorts
order_expiresource(b, q) ==
    IF q.ordering /\ ~b.simple /\ b.err = "none"
    THEN <<SORTBY(b.key, tempkey(b.n + 1)), EXPIRE(b.key, expire)>>
    ELSE <<>>

\* the pipeline RedisQuery.order() stages and executes when an ordering is
\* asked for: the sorted ids stored under a temporary key
order(b, q) ==
    IF q.ordering /\ ~b.simple /\ b.err = "none"
    THEN <<SORTBY(b.key, tempkey(b.n + 1)), EXPIRE(tempkey(b.n + 1), expire)>>
    ELSE <<>>

\* the key or list the ids are read from by RedisQuery._items
ResultKey(b, q) ==
    IF q.ordering /\ ~b.simple THEN tempkey(b.n + 1) ELSE b.key

\* the ids RedisQuery._items reads for the query q compiled as b
ItemIds(d, q, b) ==
    IF b.err # "none" THEN {}
    ELSE IF b.simple THEN {b.list[k] : k \in DOMAIN b.list}
    ELSE smembers(Execute(execute_query(d, b), order(b, q)), ResultKey(b, q))

\* the ids of the instances a query over the store d yields
QueryIds(d, q) == ItemIds(d, q, build(d, q))

StoreVars == <<db, ops, pipes, qry, result>>

SessionVars == <<inst, sm, session, txs, ret, sent, reply, signals>>

PoolVars == <<connection_pools, npools, clients>>

PubSubVars == <<channels, patterns, calls, subs>>

OrderedVars == <<zdb, items>>

\* the variables of the parts other than the session and the store
RaceVars == <<race>>

WireVars == <<proto>>

OtherVars == <<PoolVars, PubSubVars, OrderedVars, RaceVars, WireVars>>

\* a session that tracks nothing, and no call made
SessionIdle ==
    /\ inst = [i \in Instances |->
                  [id |-> 0, dbid |-> 0, st |-> NoState, session |-> FALSE]]
    /\ sm = EmptySM
    /\ session = [transaction |-> 0, autocommit |-> FALSE]
    /\ txs = <<>>
    /\ ret = FALSE
    /\ sent = <<>>
    /\ reply = <<>>
    /\ signals = <<>>

\* an empty store, and no query evaluated
StoreIdle ==
    /\ db = EmptyStore
    /\ ops = <<>>
    /\ pipes = <<>>
    /\ qry = NoQuery
    /\ result = {}

\* no backend client was built
PoolIdle ==
    /\ connection_pools = <<>>
    /\ npools = 0
    /\ clients = <<>>

\* largest number of calls on the handler in progress at a time
MaxCalls == 2

\* a slot without a call
NoCall ==
    [op |-> "none", names |-> {}, chs |-> {}, pats |-> {}, pc |-> "idle",
     result |-> 0, overlapped |-> FALSE]

\* the store's side of a connection without subscriptions; queue: the
\* calls whose command it has not answered yet, in the order sent
NoSubs == [channels |-> {}, patterns |-> {}, queue |-> <<>>]

\* PubSub.__init__
PubSubIdle ==
    /\ channels = {}
    /\ patterns = {}
    /\ calls = [c \in 1..MaxCalls |-> NoCall]
    /\ subs = NoSubs

\* the instances of the model with an ordering field
MaxOrdered == 2

OrderedIds == 1..MaxOrdered

NoOrderedHash == [when |-> None, group |-> None]

\* the keys of the model with an ordering field: the all-ids container,
\* the index containers of its indexed field and a temporary key
ZKeys == {IdSet} \cup {IdxKey("group", v) : v \in Vals} \cup {tempkey(1)}

\* the store of the model with an ordering field, empty.  desc: whether
\* the ordering of the model is descending
EmptyOrdered(desc) ==
    [obj  |-> [id \in OrderedIds |-> NoOrderedHash],
     zset |-> [k \in ZKeys |-> {}],
     desc |-> desc]

OrderedIdle ==
    /\ zdb = EmptyOrdered(FALSE)
    /\ items = <<>>

RaceIdle == race = <<>>

WireIdle == proto = <<>>

OtherIdle ==
    PoolIdle /\ PubSubIdle /\ OrderedIdle /\ RaceIdle /\ WireIdle

\* ------------------------------------------------------- state machine
Heap ==
    [inst |-> inst, sm |-> sm, session |-> session, txs |-> txs,
     err |-> "none", r |-> FALSE, sent |-> <<>>, reply |-> <<>>,
     signals |-> <<>>]

Step(h, name) ==
    /\ inst' = h.inst
    /\ sm' = h.sm
    /\ session' = h.session
    /\ txs' = h.txs
    /\ err' = h.err
    /\ sent' = h.sent
    /\ reply' = h.reply
    /\ signals' = h.signals
    /\ ret' = h.r
    /\ last' = name
    /\ UNCHANGED <<StoreVars, OtherVars>>

\* Instances are either objects read from the store, each row read once
\* (the first n of them), or fresh objects with no primary key; nothing is
\* tracked yet.
Init ==
    /\ \E n \in 0..NInst :
           inst = [i \in Instances |->
                      [id |-> IF i <= n THEN i ELSE 0,
                       dbid |-> IF i <= n THEN i ELSE 0,
                       st |-> NoState,
                       session |-> FALSE]]
    /\ sm = EmptySM
    /\ \E a \in BOOLEAN : session = [transaction |-> 0, autocommit |-> a]
    /\ txs = <<>>
    /\ last = "init"
    /\ ret = FALSE
    /\ err = "none"
    /\ sent = <<>>
    /\ reply = <<>>
    /\ signals = <<>>
    /\ db = EmptyStore
    /\ ops = <<>>
    /\ pipes = <<>>
    /\ qry = NoQuery
    /\ result = {}
    /\ OtherIdle

AddOf(i, modified) == Step(Session_add(Heap, i, modified), "add")

Add == \E i \in Instances, modified \in BOOLEAN : AddOf(i, modified)

DeleteOf(i) == Step(Session_delete(Heap, i), "delete")

Delete == \E i \in Instances : DeleteOf(i)

\* the primary keys selected by the delete queries the application stages
QueryKeys == {1}

DeleteQuery ==
    \E k \in QueryKeys :
        /\ Len(sm.delete_query) < MaxQueries
        /\ Step(Session_delete_query(Heap, {k}), "delete_query")

ExpungeOf(i) == Step(SM_expunge(Heap, i), "expunge")

Expunge == \E i \in Instances : ExpungeOf(i)

\* expunge called with an identity token instead of an instance
ExpungeIdOf(iid) == Step(SM_expunge_iid(Heap, iid), "expunge")

ExpungeId == \E iid \in Ids : ExpungeIdOf(iid)

Begin ==
    /\ session.transaction # 0 \/ Len(txs) < MaxTx
    /\ Step(Session_begin(Heap), "begin")

RollbackOf(t) == Step(Transaction_rollback(Heap, t), "rollback")

Rollback == \E t \in DOMAIN txs : RollbackOf(t)

\* the commit cannot stage more delete queries than the bound allows
CommitBound ==
    Len(sm.delete_query) + (IF sm.deleted # <<>> THEN 1 ELSE 0) <= MaxQueries

TxCommitOf(t, fail, ids) ==
    /\ CommitBound
    /\ Step(Transaction_commit(Heap, t, fail, ids), "commit")

TxCommit ==
    \E t \in DOMAIN txs, fail \in BOOLEAN, ids \in Responses(Heap) :
        TxCommitOf(t, fail, ids)

SessionCommit ==
    \E fail \in BOOLEAN, ids \in Responses(Heap) :
        /\ CommitBound
        /\ session.transaction # 0 \/ session.autocommit \/ Len(txs) < MaxTx
        /\ Step(Session_commit(Heap, fail, ids), "session_commit")

Next ==
    \/ Add
    \/ Delete
    \/ DeleteQuery
    \/ Expunge
    \/ ExpungeId
    \/ Begin
    \/ Rollback
    \/ TxCommit
    \/ SessionCommit

Spec == Init /\ [][Next]_vars

\* ======================================================= store state machine
\* largest number of instances one commit saves or deletes
MaxBatch == 2

Kinds == <<"new", "update", "delete">>

KindRank(kind) == CHOOSE k \in DOMAIN Kinds : Kinds[k] = kind

Op(kind, id, name, group, known) ==
    [kind |-> kind, id |-> id, name |-> name, group |-> group,
     known |-> known]

\* The operations on one instance a commit can stage on the store d: the
\* save of a new instance, which gets the id after the last one drawn (c),
\* the save of a stored one, or the deletion of a stored one.
OpsAt(d, c) ==
    {Op("new", c + 1, n, g, TRUE) : n \in Vals, g \in Vals, i \in {c} \cap 0..(MaxId - 1)}
    \cup {Op("update", i, n, g, k) :
             i \in d.set[IdSet], n \in Vals, g \in Vals, k \in BOOLEAN}
    \cup {Op("delete", i, None, None, k) : i \in d.set[IdSet], k \in BOOLEAN}

\* whether the operation a can be staged after the operations s: new
\* instances first (their ids drawn from the counter, c being the last id
\* drawn), then modified ones, then deleted ones, each instance at most once
CanFollow(s, a, c) ==
    /\ \A k \in DOMAIN s :
           KindRank(s[k].kind) <= KindRank(a.kind) /\ s[k].id # a.id
    /\ a.kind = "new" => a.id = c + Len(s) + 1

\* the sequences of n operations a commit can stage on the store d
RECURSIVE OpsOfLen(_, _)
OpsOfLen(d, n) ==
    IF n = 0 THEN {<<>>}
    ELSE {Append(s, a) :
            s \in OpsOfLen(d, n - 1),
            a \in OpsAt(d, d.counter) \cup OpsAt(d, d.counter + n - 1)}

StagedOps(d) ==
    {s \in UNION {OpsOfLen(d, n) : n \in 1..MaxBatch} :
        \A k \in DOMAIN s : CanFollow(SubSeq(s, 1, k - 1), s[k], d.counter)}

\* no two stored objects have the same value of the unique field
UniqueNames(d) ==
    \A i, j \in Ids :
        (i # j /\ d.obj[i] # NoHash /\ d.obj[j] # NoHash)
            => d.obj[i].name # d.obj[j].name

StoreInit ==
    /\ db = EmptyStore
    /\ ops = <<>>
    /\ pipes = <<>>
    /\ qry = NoQuery
    /\ result = {}
    /\ SessionIdle
    /\ last = "init"
    /\ err = "none"
    /\ OtherIdle

\* a commit of the session: the writer stages the pipeline against the
\* store as it is, and the store executes it as a unit
StoreCommitOf(s) ==
    LET staged == [k \in DOMAIN s |-> StagedObject(db, s[k])]
        stack  == StagePipeline(db, staged)
    IN  /\ db' = [Execute(db, stack) EXCEPT
                     !.counter = @ + Cardinality({k \in DOMAIN s :
                                                     s[k].kind = "new"})]
        /\ UniqueNames(db')
        /\ ops' = staged
        /\ pipes' = <<stack>>
        /\ last' = "store_commit"
        /\ err' = "none"
        /\ UNCHANGED <<qry, result>>
        /\ UNCHANGED <<SessionVars, OtherVars>>

Deletes(s) == {k \in DOMAIN s : s[k].kind = "delete"}

\* a commit that saves new and modified instances
SaveCommit ==
    \E s \in StagedOps(db) : Deletes(s) = {} /\ StoreCommitOf(s)

\* a commit that deletes instances, and may save others
DeleteCommit ==
    \E s \in StagedOps(db) : Deletes(s) # {} /\ StoreCommitOf(s)

\* the writer applied once more to the instance the last commit saved, with
\* the index entries it was given then
SaveAgain ==
    /\ last \in {"store_commit", "save_again"}
    /\ Len(ops) = 1
    /\ ops[1].kind # "delete"
    /\ LET stack == Write(db, ops[1])
       IN  /\ db' = Execute(db, stack)
           /\ pipes' = <<stack>>
    /\ last' = "save_again"
    /\ err' = "none"
    /\ UNCHANGED <<ops, qry, result>>
    /\ UNCHANGED <<SessionVars, OtherVars>>

StoreNext ==
    \/ SaveCommit
    \/ DeleteCommit
    \/ SaveAgain

StoreSpec == StoreInit /\ [][StoreNext]_vars

\* the store under commits that save and never delete
SaveNext ==
    \/ SaveCommit
    \/ SaveAgain

SaveSpec == StoreInit /\ [][SaveNext]_vars

\* ======================================================= query state machine
\* the values a predicate of a query is given
PredValues == {<<1>>, <<2>>, <<1, 2>>}

\* 'contains' stands for every lookup other than 'in'
Lookups == {"in", "contains"}

Predicates ==
    {Predicate(name, lookup, values) :
        name \in {"id", "name", "group"}, lookup \in Lookups,
        values \in PredValues}

InPredicates == {p \in Predicates : p.lookup = "in"}

\* the joins a query is given: the database of the model joined and the ids
\* its result refers to
Joins == [db : {PipeDb, PipeDb + 1}, ids : {{1}, {1, 2}}]

SeqUpTo(S, n) == UNION {[1..m -> S] : m \in 0..n}

\* the queries evaluated: up to two filters; up to one filter with one or
\* two excludes; one or two joins with up to one filter
Queries ==
    {Query(f, <<>>, <<>>, o) : f \in SeqUpTo(Predicates, 2), o \in BOOLEAN}
    \cup {Query(f, e, <<>>, FALSE) :
            f \in SeqUpTo(InPredicates, 1),
            e \in SeqUpTo(InPredicates, 2) \ {<<>>}}
    \cup {Query(f, <<>>, j, FALSE) :
            f \in SeqUpTo(InPredicates, 1), j \in SeqUpTo(Joins, 2) \ {<<>>}}

\* the temporary keys that exist
LiveTemp(d) == {k \in TempKeys : d.set[k] # {}}

\* the store the queries are evaluated on: the objects of up to MaxBatch
\* commits of new instances
QueryInit ==
    /\ \E s \in StagedOps(EmptyStore) \cup {<<>>} :
           /\ \A k \in DOMAIN s : s[k].kind = "new"
           /\ db = [Execute(EmptyStore,
                            StagePipeline(EmptyStore,
                                [k \in DOMAIN s |-> StagedObject(EmptyStore, s[k])]))
                       EXCEPT !.counter = Len(s)]
           /\ UniqueNames(db)
    /\ ops = <<>>
    /\ pipes = <<>>
    /\ qry = NoQuery
    /\ result = {}
    /\ SessionIdle
    /\ last = "init"
    /\ err = "none"
    /\ OtherIdle

\* a query evaluated: compiled by build (as b), executed by execute_query
\* and read by _items, which orders it when an ordering is asked for
Evaluate(q, b) ==
    /\ db' = Execute(execute_query(db, b), order(b, q))
    /\ pipes' = IF order(b, q) # <<>> THEN <<b.pipe, order(b, q)>>
                 ELSE <<b.pipe>>
    /\ qry' = q
    /\ result' = ItemIds(db, q, b)
    /\ err' = b.err
    /\ last' = "query"
    /\ UNCHANGED ops
    /\ UNCHANGED <<SessionVars, OtherVars>>

RunQueryOf(q) == Evaluate(q, build(db, q))

\* queries are evaluated one at a time, far enough apart for the temporary
\* keys of the last one to have expired
RunQuery ==
    /\ last # "query"
    /\ \E q \in Queries : RunQueryOf(q)

\* the time to live of the keys that have one runs out, and the query is
\* forgotten
TimePasses ==
    /\ last = "query"
    /\ db' = [db EXCEPT
                 !.set = [k \in SetKeys |-> IF db.ttl[k] > 0 THEN {} ELSE db.set[k]],
                 !.ttl = [k \in SetKeys |-> 0]]
    /\ pipes' = <<>>
    /\ qry' = NoQuery
    /\ result' = {}
    /\ last' = "expire"
    /\ err' = "none"
    /\ UNCHANGED ops
    /\ UNCHANGED <<SessionVars, OtherVars>>

QueryNext ==
    \/ RunQuery
    \/ TimePasses

QuerySpec == QueryInit /\ [][QueryNext]_vars

\* ------------------------------------------------- connection pools

\* largest number of backend clients built
MaxClients == 2

DefaultPort == 6379

\* the server strings given: host and port, 0 when the string has no port
Servers ==
    {[host |-> "localhost", port |-> 0],
     [host |-> "localhost", port |-> DefaultPort],
     [host |-> "127.0.0.1", port |-> DefaultPort],
     [host |-> "127.0.0.1", port |-> DefaultPort + 1]}

Databases == {0, 1}

\* socket_timeout as given: None, or a number of seconds
Timeouts == {None, 5}

\* redis_connection(host, port, db, password, socket_timeout, decode) as
\* BackendDataServer.__init__ builds it.  samehost: whether "servs[0] is
\* 'localhost'" finds the two strings to be the same object.
redis_connection(server, database, socket_timeout, samehost) ==
    [host |-> IF server.host = "localhost" /\ samehost
              THEN "127.0.0.1" ELSE server.host,
     port |-> IF server.port # 0 THEN server.port ELSE DefaultPort,
     db |-> database,
     password |-> None,
     socket_timeout |-> IF socket_timeout # 0 THEN socket_timeout ELSE None,
     decode |-> None]

\* __init__ making a new pool for every client
ConnectionPoolOf_new(pools, n, cp) ==
    [pools |-> (cp :> (n + 1)) @@ pools, n |-> n + 1, pool |-> n + 1]

\* the pool __init__ gives the client for the tuple cp: the one registered,
\* or a new one, which it registers.  pools: the registry; n: the number of
\* pools made so far
ConnectionPoolOf(pools, n, cp) ==
    IF cp \in DOMAIN pools
    THEN [pools |-> pools, n |-> n, pool |-> pools[cp]]
    ELSE [pools |-> (cp :> (n + 1)) @@ pools, n |-> n + 1, pool |-> n + 1]

PoolInit ==
    /\ OtherIdle
    /\ SessionIdle
    /\ StoreIdle
    /\ last = "init"
    /\ err = "none"

\* BackendDataServer(name, server, db, socket_timeout = ...)
NewClient ==
    /\ Len(clients) < MaxClients
    /\ \E server \in Servers, database \in Databases, t \in Timeouts,
          samehost \in BOOLEAN :
           LET cp == redis_connection(server, database, t, samehost)
               r  == ConnectionPoolOf(connection_pools, npools, cp)
           IN  /\ connection_pools' = r.pools
               /\ npools' = r.n
               /\ clients' = Append(clients,
                                    [cp |-> cp, pool |-> r.pool, home |-> cp])
    /\ last' = "client"
    /\ err' = "none"
    /\ UNCHANGED <<SessionVars, StoreVars, PubSubVars, OrderedVars, RaceVars,
                   WireVars>>

\* client c switches to another database of its server: it takes the
\* connection of the new tuple
Select ==
    /\ \E c \in DOMAIN clients, database \in Databases :
           /\ database # clients[c].cp.db
           /\ LET cp == [clients[c].cp EXCEPT !.db = database]
                  r  == ConnectionPoolOf(connection_pools, npools, cp)
              IN  /\ connection_pools' = r.pools
                  /\ npools' = r.n
                  /\ clients' = [clients EXCEPT ![c].cp = cp,
                                                ![c].pool = r.pool]
           /\ ret' = c
    /\ last' = "select"
    /\ err' = "none"
    /\ UNCHANGED <<inst, sm, session, txs, sent, reply, signals, StoreVars,
                   PubSubVars, OrderedVars, RaceVars,
                   WireVars>>

PoolNext ==
    \/ NewClient
    \/ Select

PoolSpec == PoolInit /\ [][PoolNext]_vars


\* ------------------------------------------------- publish / subscribe

\* the channel names given to the calls, each a string of characters
ChannelNames == {<<"a">>, <<"b">>, <<"p", "*">>, <<"*">>}

\* '*' in c
HasStar(c) == \E k \in DOMAIN c : c[k] = "*"

\* _channel_patterns taking every name for a plain channel
PubSub_channel_patterns_plain(names) ==
    [simples |-> names, patterns |-> {}]

\* PubSub._channel_patterns(channels)
PubSub_channel_patterns(names) ==
    [simples  |-> {c \in names : ~HasStar(c)},
     patterns |-> {c \in names : HasStar(c) /\ c # <<"*">>}]

\* PubSub._count_channels()
PubSub_count_channels(ch, pt) == Cardinality(ch) + Cardinality(pt)

\* the call returns: the sets of the handler and the result
Finish(ch, pt) ==
    [channels |-> ch, patterns |-> pt, pc |-> "idle", chs |-> {},
     pats |-> {}, result |-> PubSub_count_channels(ch, pt)]

\* the call is suspended at the yield of _execute(command, ...) until the
\* reply is in; chs and pats are its local 'channels' and 'patterns'
Await(ch, pt, command, chs, pats) ==
    [channels |-> ch, patterns |-> pt, pc |-> command, chs |-> chs,
     pats |-> pats, result |-> 0]

\* subscribe from 'if patterns:' on
SubscribePatterns(ch, pt, given) ==
    IF given \ pt # {}
    THEN Await(ch, pt, "psubscribe", {}, given \ pt)
    ELSE Finish(ch, pt)

\* subscribe asking for every channel given, subscribed to or not
SubscribeStart_resend(ch, pt, names) ==
    LET g == PubSub_channel_patterns(names)
    IN  IF g.simples # {}
        THEN Await(ch, pt, "subscribe", g.simples, {})
        ELSE SubscribePatterns(ch, pt, g.patterns)

\* PubSub.subscribe(*channels) up to its first yield
SubscribeStart(ch, pt, names) ==
    LET g == PubSub_channel_patterns(names)
    IN  IF g.simples \ ch # {}
        THEN Await(ch, pt, "subscribe", g.simples \ ch, {})
        ELSE SubscribePatterns(ch, pt, g.patterns)

\* unsubscribe() from 'if self._patterns:' on
UnsubscribeAllPatterns(ch, pt) ==
    IF pt # {} THEN Await(ch, pt, "punsubscribe_all", {}, {})
    ELSE Finish(ch, pt)

\* unsubscribe(names) from 'if patterns:' on
UnsubscribePatterns(ch, pt, pats) ==
    IF pats # {} THEN Await(ch, pt, "punsubscribe", {}, pats)
    ELSE Finish(ch, pt)

\* PubSub.unsubscribe(*channels) up to its first yield
UnsubscribeStart(ch, pt, names) ==
    LET g == PubSub_channel_patterns(names)
    IN  IF g.simples = {} /\ g.patterns = {}
        THEN IF ch # {} THEN Await(ch, pt, "unsubscribe_all", {}, {})
             ELSE UnsubscribeAllPatterns(ch, pt)
        ELSE IF ch \cap g.simples # {}
        THEN Await(ch, pt, "unsubscribe", ch \cap g.simples,
                   pt \cap g.patterns)
        ELSE UnsubscribePatterns(ch, pt, pt \cap g.patterns)

\* the call going on without taking the channels it unsubscribed from out
\* of the set
Continue_forgets(ch, pt, call) ==
    CASE call.pc = "subscribe" ->
            SubscribePatterns(ch \cup call.chs, pt,
                              PubSub_channel_patterns(call.names).patterns)
      [] call.pc = "psubscribe" -> Finish(ch, pt \cup call.pats)
      [] call.pc = "unsubscribe_all" -> UnsubscribeAllPatterns({}, pt)
      [] call.pc = "punsubscribe_all" -> Finish(ch, {})
      [] call.pc = "unsubscribe" -> UnsubscribePatterns(ch, pt, call.pats)
      [] call.pc = "punsubscribe" -> Finish(ch, pt \ call.pats)

\* the call in the record goes on after the reply it waited for
Continue(ch, pt, call) ==
    CASE call.pc = "subscribe" ->
            SubscribePatterns(ch \cup call.chs, pt,
                              PubSub_channel_patterns(call.names).patterns)
      [] call.pc = "psubscribe" -> Finish(ch, pt \cup call.pats)
      [] call.pc = "unsubscribe_all" -> UnsubscribeAllPatterns({}, pt)
      [] call.pc = "punsubscribe_all" -> Finish(ch, {})
      [] call.pc = "unsubscribe" ->
            UnsubscribePatterns(ch \ call.chs, pt, call.pats)
      [] call.pc = "punsubscribe" -> Finish(ch, pt \ call.pats)

\* the calls in progress
Running == {c \in DOMAIN calls : calls[c].pc # "idle"}

\* the store after the command the call of slot c sent, if any: SUBSCRIBE
\* and PSUBSCRIBE add the names given, UNSUBSCRIBE and PUNSUBSCRIBE remove
\* them, or all when none is given
Served(sv, c, r) ==
    LET q == SelectSeq(sv.queue, LAMBDA k : k # c)
    IN  CASE r.pc = "idle" -> [sv EXCEPT !.queue = q]
          [] r.pc = "subscribe" ->
                [sv EXCEPT !.channels = @ \cup r.chs, !.queue = Append(q, c)]
          [] r.pc = "psubscribe" ->
                [sv EXCEPT !.patterns = @ \cup r.pats, !.queue = Append(q, c)]
          [] r.pc = "unsubscribe_all" ->
                [sv EXCEPT !.channels = {}, !.queue = Append(q, c)]
          [] r.pc = "punsubscribe_all" ->
                [sv EXCEPT !.patterns = {}, !.queue = Append(q, c)]
          [] r.pc = "unsubscribe" ->
                [sv EXCEPT !.channels = @ \ r.chs, !.queue = Append(q, c)]
          [] r.pc = "punsubscribe" ->
                [sv EXCEPT !.patterns = @ \ r.pats, !.queue = Append(q, c)]

\* the call of slot c has run up to its next yield or to its end (r);
\* every other call in progress has been overlapped by it, and the calls
\* that returned earlier are forgotten
Advance(c, op, names, overlapped, r) ==
    /\ channels' = r.channels
    /\ patterns' = r.patterns
    /\ calls' = [k \in DOMAIN calls |->
                    IF k = c
                    THEN [op |-> op, names |-> names, chs |-> r.chs,
                          pats |-> r.pats, pc |-> r.pc, result |-> r.result,
                          overlapped |-> overlapped]
                    ELSE IF k \in Running
                    THEN [calls[k] EXCEPT !.overlapped = TRUE]
                    ELSE NoCall]
    /\ subs' = Served(subs, c, r)
    /\ last' = IF r.pc = "idle" THEN op ELSE "await"
    /\ ret' = c
    /\ err' = "none"
    /\ UNCHANGED <<inst, sm, session, txs, sent, reply, signals, StoreVars,
                   PoolVars, OrderedVars, RaceVars,
                   WireVars>>

PubSubInit ==
    /\ OtherIdle
    /\ SessionIdle
    /\ StoreIdle
    /\ last = "init"
    /\ err = "none"

\* pubsub.subscribe(*names)
Subscribe ==
    \E c \in DOMAIN calls \ Running, names \in SUBSET ChannelNames :
        Advance(c, "subscribe", names, Running # {},
                SubscribeStart(channels, patterns, names))

\* pubsub.unsubscribe(*names)
Unsubscribe ==
    \E c \in DOMAIN calls \ Running, names \in SUBSET ChannelNames :
        Advance(c, "unsubscribe", names, Running # {},
                UnsubscribeStart(channels, patterns, names))

\* the reply a call waits for is in, and the call goes on
Reply ==
    \E c \in Running :
        Advance(c, calls[c].op, calls[c].names,
                calls[c].overlapped \/ Running # {c},
                Continue(channels, patterns, calls[c]))

\* the same, the store answering the commands in the order sent
ReplyInOrder ==
    \E c \in Running :
        /\ c = Head(subs.queue)
        /\ Advance(c, calls[c].op, calls[c].names,
                   calls[c].overlapped \/ Running # {c},
                   Continue(channels, patterns, calls[c]))

PubSubNext ==
    \/ Subscribe
    \/ Unsubscribe
    \/ Reply

PubSubSpec == PubSubInit /\ [][PubSubNext]_vars

InOrderNext ==
    \/ Subscribe
    \/ Unsubscribe
    \/ ReplyInOrder

InOrderSpec == PubSubInit /\ [][InOrderNext]_vars

\* ------------------------------------------- model with an ordering field
\* The model has the ordering field 'when' (not indexed; None: unset) and
\* the indexed field 'group'.  Its all-ids container and its index
\* containers are sorted sets: sets of <<id, score>> with one entry per id.

\* MIN_FLOAT = -1.e99: a number below every score and below the sum of any
\* two scores
MIN_FLOAT == -1000000

\* ordering.field.scorefun(v): a monotonic numeric projection of the value
scorefun(v) == 10 * v

Members(S) == {e[1] : e \in S}

\* redispy.zscore(key, id): None when id is no member
zscore(z, key, id) ==
    IF id \in Members(z[key])
    THEN (CHOOSE e \in z[key] : e[1] = id)[2]
    ELSE None

\* pipe.zadd(key, score, id)
zadd(z, key, score, id) ==
    [z EXCEPT ![key] = {e \in @ : e[1] # id} \cup {<<id, score>>}]

\* pipe.zrem(key, id)
zrem(z, key, id) ==
    [z EXCEPT ![key] = {e \in @ : e[1] # id}]

\* pipe.zinterstore(dest, (key1, key2)): the members of both, each under
\* the sum of its two scores
zinterstore(z, dest, key1, key2) ==
    [z EXCEPT ![dest] =
        {<<id, zscore(z, key1, id) + zscore(z, key2, id)>> :
            id \in Members(z[key1]) \cap Members(z[key2])}]

\* redispy.zrange(key, 0, -1): the members by score, members of one score
\* by id
RECURSIVE zrange(_)
zrange(S) ==
    IF S = {} THEN <<>>
    ELSE LET m == CHOOSE e \in S :
                    \A f \in S : \/ e[2] < f[2]
                                 \/ e[2] = f[2] /\ e[1] <= f[1]
         IN  <<m[1]>> \o zrange(S \ {m})

Reverse(s) == [i \in 1..Len(s) |-> s[Len(s) + 1 - i]]

\* redispy.zrevrange(key, 0, -1)
zrevrange(S) == Reverse(zrange(S))

\* add2set.__call__(key, id, score, obj, idsave) of a model with ordering:
\* the sorted sets after it and the score it returns.  obj NoOrderedHash:
\* no obj given; score None: no score given.
add2set_ordering(z, key, id, score, obj, idsave) ==
    LET s == IF obj # NoOrderedHash
             THEN (IF obj.when = None THEN MIN_FLOAT
                   ELSE scorefun(obj.when))
             ELSE IF score = None THEN zscore(z, IdSet, id)
             ELSE score
    IN  [z     |-> IF idsave THEN zadd(z, key, s, id) ELSE z,
         score |-> s]

\* _save_object(obj, newid, transaction) of the model with ordering, its
\* pipeline executed: the store after it.  indices: whether the indexed
\* field has an entry (always for a new instance, for a stored one when its
\* value changed); oldvalue: the value the instance was read with.
save_ordered(d, obid, data, indices, oldvalue, newid) ==
    LET a  == add2set_ordering(d.zset, IdSet, obid, None, data, newid)
        z0 == IF newid \/ indices THEN a.z ELSE d.zset
        z1 == IF ~newid THEN [z0 EXCEPT ![tempkey(1)] = {}] ELSE z0
        z2 == IF ~newid THEN zrem(z1, IdxKey("group", oldvalue), obid)
              ELSE z1
        z3 == add2set_ordering(z2, IdxKey("group", data.group), obid,
                               a.score, NoOrderedHash, TRUE).z
    IN  [d EXCEPT !.obj[obid] = data,
                  !.zset = IF indices THEN z3 ELSE z0]

\* RedisQuery.build and _items of the model with ordering: the store after
\* the query and the ids returned.  group: the value the indexed field is
\* filtered by, None for no filter.
ordered_items(d, group) ==
    LET z   == IF group = None THEN d.zset
               ELSE zinterstore(d.zset, tempkey(1),
                                IdSet, IdxKey("group", group))
        key == IF group = None THEN IdSet ELSE tempkey(1)
    IN  [d     |-> [d EXCEPT !.zset = z],
         items |-> IF d.desc THEN zrevrange(z[key]) ELSE zrange(z[key])]

OrderedStored(d) == {id \in OrderedIds : d.obj[id] # NoOrderedHash}

OrderedInit ==
    /\ SessionIdle
    /\ StoreIdle
    /\ PoolIdle
    /\ PubSubIdle
    /\ RaceIdle
    /\ WireIdle
    /\ \E desc \in BOOLEAN : zdb = EmptyOrdered(desc)
    /\ items = <<>>
    /\ last = "init"
    /\ err = "none"

\* a new instance is saved and the transaction committed
OrderedSave ==
    \E id \in OrderedIds, when \in Vals \cup {None}, group \in Vals :
        /\ id \notin OrderedStored(zdb)
        /\ \A j \in 1..(id - 1) : j \in OrderedStored(zdb)
        /\ zdb' = save_ordered(zdb, id, [when |-> when, group |-> group],
                               TRUE, None, TRUE)
        /\ last' = "save"
        /\ err' = "none"
        /\ UNCHANGED <<items, SessionVars, StoreVars, PoolVars, PubSubVars,
                       RaceVars, WireVars>>

\* a stored instance is read, changed, saved and the transaction committed
OrderedUpdate ==
    \E id \in OrderedStored(zdb), when \in Vals \cup {None},
       group \in Vals :
        /\ zdb' = save_ordered(zdb, id, [when |-> when, group |-> group],
                               group # zdb.obj[id].group,
                               zdb.obj[id].group, FALSE)
        /\ last' = "update"
        /\ err' = "none"
        /\ UNCHANGED <<items, SessionVars, StoreVars, PoolVars, PubSubVars,
                       RaceVars, WireVars>>

\* the items of a query of the model are read
OrderedQuery ==
    \E group \in Vals \cup {None} :
        LET r == ordered_items(zdb, group)
        IN  /\ zdb' = r.d
            /\ items' = r.items
            /\ last' = "items"
            /\ err' = "none"
            /\ UNCHANGED <<SessionVars, StoreVars, PoolVars, PubSubVars,
                           RaceVars, WireVars>>

\* new instances are saved and queries read
OrderedNewNext ==
    \/ OrderedSave
    \/ OrderedQuery

OrderedNewSpec == OrderedInit /\ [][OrderedNewNext]_vars

OrderedNext ==
    \/ OrderedSave
    \/ OrderedUpdate
    \/ OrderedQuery

OrderedSpec == OrderedInit /\ [][OrderedNext]_vars

\* slice(start, stop), a bound being an integer or absent (None)
NoBound == [given |-> FALSE, v |-> 0]

Bound(v) == [given |-> TRUE, v |-> v]

SliceBounds == {NoBound} \cup {Bound(v) : v \in (0 - MaxOrdered)..MaxOrdered}

\* seq[start:stop] of Python
PySlice(seq, start, stop) ==
    LET n     == Len(seq)
        Clamp(b, dflt) ==
            IF ~b.given THEN dflt
            ELSE IF b.v < 0 THEN (IF n + b.v < 0 THEN 0 ELSE n + b.v)
            ELSE IF b.v > n THEN n
            ELSE b.v
        lo == Clamp(start, 0)
        hi == Clamp(stop, n)
    IN  SubSeq(seq, lo + 1, hi)

\* LRANGE, ZRANGE and ZREVRANGE key start stop of the store: both ends
\* count from 0 and are included, a negative one counts from the end
redis_range(seq, start, stop) ==
    LET n  == Len(seq)
        lo == IF start < 0 THEN (IF n + start < 0 THEN 0 ELSE n + start)
              ELSE start
        hi == IF stop < 0 THEN n + stop
              ELSE IF stop >= n THEN n - 1
              ELSE stop
    IN  SubSeq(seq, lo + 1, hi + 1)

\* RedisQuery.get_redis_slice(slic) for a slice given: 'x or d' takes d
\* when x is None or 0
get_redis_slice(start, stop) ==
    LET s0 == IF start.given /\ start.v # 0 THEN start.v ELSE 0
        s1 == IF stop.given /\ stop.v # 0 THEN stop.v ELSE -1
    IN  [start |-> s0, stop |-> IF s1 > 0 THEN s1 - 1 ELSE s1]

\* the items of a query of the model are read with a slice: the range
\* of the sorted set that get_redis_slice asks for
OrderedSlice ==
    \E group \in Vals \cup {None}, start \in SliceBounds,
       stop \in SliceBounds :
        LET r == ordered_items(zdb, group)
            g == get_redis_slice(start, stop)
        IN  /\ zdb' = r.d
            /\ items' = [all   |-> r.items,
                         start |-> start,
                         stop  |-> stop,
                         ids   |-> redis_range(r.items, g.start, g.stop)]
            /\ last' = "slice"
            /\ err' = "none"
            /\ UNCHANGED <<SessionVars, StoreVars, PoolVars, PubSubVars,
                           RaceVars, WireVars>>

\* new instances are saved and slices of queries read
SliceNext ==
    \/ OrderedSave
    \/ OrderedSlice

SliceSpec == OrderedInit /\ [][SliceNext]_vars

\* ------------------------------------------- two sessions, one instance
\* Two sessions work on the stored instance 1.  Each reads it and changes
\* its fields (the index entries are made against what it read), later
\* stages the pipeline of its commit (the writer loads the old values it
\* was not given from the store as it is then), and later the store
\* executes the pipeline as a unit.
Sessions == {1, 2}

NoTask == [pc |-> "start", obj |-> NoHash, stack |-> <<>>]

\* the store after the commit that saved instance 1 with name n, group g
OneInstance(n, g) ==
    Execute([EmptyStore EXCEPT !.counter = 1],
            save_object(EmptyStore,
                        cleaned(EmptyStore, Op("new", 1, n, g, TRUE)), TRUE))

RaceInit ==
    /\ \E n \in Vals, g \in Vals : db = OneInstance(n, g)
    /\ race = [s \in Sessions |-> NoTask]
    /\ ops = <<>>
    /\ pipes = <<>>
    /\ qry = NoQuery
    /\ result = {}
    /\ SessionIdle
    /\ PoolIdle
    /\ PubSubIdle
    /\ OrderedIdle
    /\ WireIdle
    /\ last = "init"
    /\ err = "none"

\* a session has read instance 1 and changed it
Modify ==
    \E s \in Sessions, n \in FieldVals, g \in FieldVals, known \in BOOLEAN :
        /\ race[s].pc = "start"
        /\ race' = [race EXCEPT ![s] =
               [pc    |-> "modified",
                obj   |-> cleaned(db, Op("update", 1, n, g, known)),
                stack |-> <<>>]]
        /\ last' = "modify"
        /\ err' = "none"
        /\ UNCHANGED <<SessionVars, StoreVars, PoolVars, PubSubVars,
                       OrderedVars,
                       WireVars>>

\* the commit of a session stages its pipeline
Stage ==
    \E s \in Sessions :
        /\ race[s].pc = "modified"
        /\ race' = [race EXCEPT ![s].pc = "staged",
                                ![s].stack = save_object(db, race[s].obj,
                                                         FALSE)]
        /\ last' = "stage"
        /\ err' = "none"
        /\ UNCHANGED <<SessionVars, StoreVars, PoolVars, PubSubVars,
                       OrderedVars,
                       WireVars>>

\* the store executes the pipeline of a session
Exec ==
    \E s \in Sessions :
        /\ race[s].pc = "staged"
        /\ db' = Execute(db, race[s].stack)
        /\ race' = [race EXCEPT ![s].pc = "done"]
        /\ last' = "exec"
        /\ err' = "none"
        /\ UNCHANGED <<ops, pipes, qry, result>>
        /\ UNCHANGED <<SessionVars, PoolVars, PubSubVars, OrderedVars,
                       WireVars>>

RaceNext ==
    \/ Modify
    \/ Stage
    \/ Exec

RaceSpec == RaceInit /\ [][RaceNext]_vars

\* ------------------------------------------- asynchronous requests
\* One connection and the protocol consumer of the request in progress on
\* it.  The server answers every command written, in the order written;
\* a reply is ReplyLen bytes long; the bytes reach data_received in chunks
\* of any size.  impl: the connector, "backend" for
\* stdnet/backends/redisb/async.py, "lib" for stdnet/lib/redis/async.py.

\* the commands staged on a pipeline
MaxCmds == 2

\* the requests made on the connection
MaxRequests == 2

\* the bytes of a reply
ReplyLen == 2

\* the value feed returns while the request is in progress: NOT_DONE in the
\* backend connector, None in the other
NOT_DONE == "NOT_DONE"

\* AsyncRedisRequest(...): name 'auth', 'select' or '' (a pipeline); opts:
\* the commands still to be answered (args_options); deferred: whether
\* on_finished is a Deferred; calls: the calls of feed; done: whether the
\* last one returned the response; feeds: the calls that returned it
Request(name, n, deferred) ==
    [name |-> name, total |-> n, opts |-> n, response |-> <<>>,
     last_response |-> FALSE, on_finished |-> deferred, fired |-> FALSE,
     calls |-> 0, done |-> FALSE, feeds |-> 0]

NoRequest == Request("none", 0, FALSE)

\* the bytes the server sends in answer to a request written
ReplyBytes(r, id) ==
    [i \in 1..(r.total * ReplyLen) |->
        [id |-> id, name |-> r.name, k |-> ((i - 1) \div ReplyLen) + 1]]

\* parser.get() / reader.gets() as often as feed calls it: the replies
\* complete in the buffer are taken while commands are unanswered.  The
\* request and the buffer after it; got: whether the last call returned a
\* reply.
RECURSIVE Gets(_, _)
Gets(r, buf) ==
    IF r.opts = 0 THEN [r |-> r, buf |-> buf]
    ELSE IF Len(buf) < ReplyLen
    THEN [r |-> [r EXCEPT !.last_response = FALSE], buf |-> buf]
    ELSE Gets([r EXCEPT !.opts = @ - 1,
                        !.last_response = TRUE,
                        !.response = Append(@, [id |-> buf[1].id,
                                                k  |-> buf[1].k])],
              SubSeq(buf, ReplyLen + 1, Len(buf)))

\* feed reporting completion as soon as the chunk held a whole reply
feed_anyreply(impl, r, buf, data) ==
    LET g    == Gets(r, buf \o data)
        done == Len(g.r.response) > Len(r.response)
    IN  [r   |-> [g.r EXCEPT !.calls = @ + 1,
                             !.done = done,
                             !.feeds = IF done THEN @ + 1 ELSE @],
         buf |-> g.buf]

\* AsyncRedisRequest.feed(data): the request and the parser's buffer after
\* it, and whether it returned the response (done) or NOT_DONE / None
feed(impl, r, buf, data) ==
    LET g    == Gets(r, buf \o data)
        done == IF impl = "backend"
                THEN (IF r.name = "" THEN g.r.opts = 0
                      ELSE Len(g.r.response) > Len(r.response))
                ELSE g.r.last_response
    IN  [r   |-> [g.r EXCEPT !.calls = @ + 1,
                             !.done = done,
                             !.feeds = IF done THEN @ + 1 ELSE @],
         buf |-> g.buf]

\* the requests a connection taken for new needs before the first one:
\* the login and the database switch
Chained(p) ==
    (IF p.password
     THEN <<Request("auth", 1, p.impl = "backend")>> ELSE <<>>)
    \o (IF p.db # 0
        THEN <<Request("select", 1, p.impl = "backend")>> ELSE <<>>)

\* transport.write(current_request.command): the command is on its way
\* and the server's answer will follow those of the commands before
write(p, r) ==
    [p EXCEPT !.written = Append(@, r.name),
              !.wire = @ \o ReplyBytes(r, Len(p.written) + 1)]

\* ProtocolConsumer.new_request(request): the request becomes the current
\* one, with a parser of its own, and start_request writes it
new_request(p, r, rest) ==
    write([p EXCEPT !.cur = r, !.requests = rest, !.buf = <<>>,
                    !.request_processed = @ + 1], r)

\* ProtocolConsumer.finished(response): the consumer is done and the
\* connection goes back to the pool
finished(p) ==
    [p EXCEPT !.released = TRUE, !.finished = @ + 1, !.served = @ + 1]

\* RedisProtocol.data_received(data)
data_received(p, data) ==
    LET f  == feed(p.impl, p.cur, p.buf, data)
        p1 == [p EXCEPT !.cur = f.r, !.buf = f.buf]
    IN  IF ~f.r.done THEN p1
        ELSE IF p.impl = "backend"
        THEN (IF f.r.on_finished /\ ~f.r.fired
              THEN new_request([p1 EXCEPT !.cur.fired = TRUE],
                               Head(p.requests), Tail(p.requests))
              ELSE finished(p1))
        ELSE (IF p.requests # <<>>
              THEN new_request(p1, Head(p.requests), Tail(p.requests))
              ELSE finished(p1))

\* the connection before any request
NewConnection(impl, password, database) ==
    [impl |-> impl, password |-> password, db |-> database,
     cur |-> NoRequest, requests |-> <<>>, buf |-> <<>>, wire |-> <<>>,
     written |-> <<>>, request_processed |-> 0, released |-> TRUE,
     finished |-> 0, served |-> 0]

WireInit ==
    /\ \E impl \in {"backend", "lib"}, password \in BOOLEAN,
          database \in {0, 1} :
           proto = NewConnection(impl, password, database)
    /\ SessionIdle
    /\ StoreIdle
    /\ PoolIdle
    /\ PubSubIdle
    /\ OrderedIdle
    /\ RaceIdle
    /\ last = "init"
    /\ err = "none"

\* request_pipeline(pipeline): the request of n commands, wrapped in MULTI
\* and EXEC when the pipeline is a transaction, is given a consumer on the
\* connection; when the connector takes the connection for new (isnew:
\* its test of connection.processed, a counter kept by the pulsar
\* library) the login and the database switch go first
RequestPipeline ==
    \E n \in 1..MaxCmds, is_transaction \in BOOLEAN, isnew \in BOOLEAN :
        LET request == Request("", IF is_transaction THEN n + 2 ELSE n,
                               FALSE)
            reqs    == (IF isnew THEN Chained(proto) ELSE <<>>)
                       \o <<request>>
        IN  /\ proto.released
            /\ proto.wire = <<>>
            /\ proto.served < MaxRequests
            /\ proto' = new_request(
                            [proto EXCEPT !.released = FALSE,
                                          !.finished = 0,
                                          !.request_processed = 0],
                            Head(reqs), Tail(reqs))
            /\ last' = "request"
            /\ err' = "none"
            /\ UNCHANGED <<SessionVars, StoreVars, PoolVars, PubSubVars,
                           OrderedVars, RaceVars>>

\* a chunk of the bytes on their way arrives
DataReceived ==
    \E m \in 1..Len(proto.wire) :
        /\ ~proto.released
        /\ proto' = data_received(
                        [proto EXCEPT !.wire = SubSeq(@, m + 1, Len(@))],
                        SubSeq(proto.wire, 1, m))
        /\ last' = "data"
        /\ err' = "none"
        /\ UNCHANGED <<SessionVars, StoreVars, PoolVars, PubSubVars,
                       OrderedVars, RaceVars>>

WireNext ==
    \/ RequestPipeline
    \/ DataReceived

WireSpec == WireInit /\ [][WireNext]_vars


\* ======================================================= properties
Commits == {"commit", "session_commit"}

\* the identity tokens a SessionModel holds, per partition
PartitionKeys(m) ==
    [new |-> Keys(m.new), modified |-> Keys(m.modified),
     loaded |-> DKeys(m.loaded), deleted |-> Keys(m.deleted)]

Partitions == {"new", "modified", "loaded", "deleted"}

AllKeys(m) == UNION {PartitionKeys(m)[p] : p \in Partitions}

\* the instances a SessionModel holds in any partition
Tracked(m) ==
    Values(m.new) \cup Values(m.modified) \cup DValues(m.loaded)
    \cup Values(m.deleted)

\* the instances the staged delete queries were built from
QueryInsts(m) == UNION {m.delete_query[k].insts : k \in DOMAIN m.delete_query}

\* the instances a pipeline saves
SavedInsts(stack) == {stack[k].inst : k \in DOMAIN stack} \ {0}

\* the instances a commit stages for saving, in staging order
Staged(m) ==
    [k \in 1..Len(m.new) |-> m.new[k][2]]
    \o [k \in 1..Len(m.modified) |-> m.modified[k][2]]

InLoadedOnly(m, i) ==
    /\ i \in DValues(m.loaded)
    /\ i \notin Values(m.new) \cup Values(m.modified) \cup Values(m.deleted)

Without(d, key) == SelectSeq(d, LAMBDA e : e[1] # key)

\* C1: every identity token is a key of at most one of the partitions new,
\* modified, loaded, deleted, in every reachable state.
C1_OnePartition ==
    \A k \in AllKeys(sm) :
        Cardinality({p \in Partitions : k \in PartitionKeys(sm)[p]}) <= 1

\* C2: begin() with a transaction in progress raises InvalidTransaction and
\* leaves the session's transaction, the transaction objects and the
\* partitions as they were; at most one transaction of the session is open.
C2_BeginRejected ==
    /\ [][(last' = "begin" /\ session.transaction # 0)
            => (err' = ErrBegun /\ UNCHANGED <<session, txs, sm>>)]_vars
    /\ [](Cardinality({t \in DOMAIN txs : is_open(Heap, t) /\ txs[t].session})
            <= 1)

C2_Witness ==
    last = "begin" /\ err = ErrBegun /\ session.transaction # 0

\* C3: a transaction that has been committed or rolled back is closed
\* (is_open false), stays closed, and a commit() on a closed transaction
\* raises 'Transaction already closed' and sends nothing.
C3_ClosedAfterEnd ==
    [][\A t \in DOMAIN txs :
        /\ RollbackOf(t) => ~is_open(Heap, t)'
        /\ \A ids \in Responses(Heap) :
               (TxCommitOf(t, FALSE, ids) /\ err' = "none")
                   => ~is_open(Heap, t)'
        /\ ~is_open(Heap, t) => ~is_open(Heap, t)'
        /\ \A fail \in BOOLEAN, ids \in Responses(Heap) :
               (~is_open(Heap, t) /\ TxCommitOf(t, fail, ids))
                   => (err' = ErrClosed /\ sent' = <<>>)]_vars

\* C4: a commit made while no instance is new, modified or deleted and no
\* delete query is staged has no pipeline executed by the backend.
C4_EmptyCommitSendsNothing ==
    [][(/\ last' \in Commits
        /\ sm.new = <<>> /\ sm.modified = <<>> /\ sm.deleted = <<>>
        /\ sm.delete_query = <<>>)
            => sent' = <<>>]_vars

C4_Witness ==
    /\ last \in Commits /\ err = "none" /\ sent = <<>>
    /\ \E t \in DOMAIN txs : ~is_open(Heap, t)
    /\ Tracked(sm) # {}

\* C5 as stated: when the pipeline fails during commit, the four partitions
\* hold what they held before commit() was called.
C5_PartitionsKeptOnFailure ==
    [][(last' \in Commits /\ err' = ErrBackend)
            => (/\ sm'.new = sm.new /\ sm'.modified = sm.modified
                /\ sm'.loaded = sm.loaded /\ sm'.deleted = sm.deleted)]_vars

\* C5 as amended: when the pipeline fails during commit, new, modified and
\* loaded hold what they held before; the deleted partition is empty, its
\* instances being held by one delete query appended to the staged ones,
\* which stay staged; a second commit stages the pipeline that failed.
C5_FailedCommitRetryable ==
    [][(last' \in Commits /\ err' = ErrBackend)
            => (/\ sm'.new = sm.new /\ sm'.modified = sm.modified
                /\ sm'.loaded = sm.loaded
                /\ sm'.deleted = <<>>
                /\ sm'.delete_query =
                       IF sm.deleted = <<>> THEN sm.delete_query
                       ELSE Append(sm.delete_query,
                                   [insts |-> Values(sm.deleted),
                                    ids |-> {inst[i].id : i \in Values(sm.deleted)}])
                /\ CommandStack(SM_pre_commit(Heap))' = sent')]_vars

C5_Witness ==
    /\ last \in Commits /\ err = ErrBackend
    /\ QueryInsts(sm) # {}
    /\ sm.new # <<>>

\* C6: after a commit whose pipeline was executed and reconciled, the k-th
\* staged instance (new ones in insertion order, then modified ones) has the
\* k-th reported id and is in the loaded partition and in no other.
C6_IdsInStagingOrder ==
    [][(last' \in Commits /\ sent' # <<>> /\ err' = "none")
            => (/\ Len(reply') = Len(Staged(sm))
                /\ \A k \in 1..Len(Staged(sm)) :
                       /\ inst'[Staged(sm)[k]].id = reply'[k]
                       /\ InLoadedOnly(sm', Staged(sm)[k]))]_vars

C6_Witness ==
    /\ last \in Commits /\ err = "none" /\ Len(reply) = 2
    /\ \E i, j \in Instances :
           /\ i # j /\ inst[i].id = reply[1] /\ inst[j].id = reply[2]
           /\ i > j
           /\ InLoadedOnly(sm, i) /\ InLoadedOnly(sm, j)

\* C7: when the reply to a commit gives a persistent staged instance an id
\* other than its own, reconciliation raises the 'id has changed' error, and
\* the id and the '_dbdata' id of every such instance are what they were.
C7_IdChangeIsFatal ==
    [][(last' \in Commits /\ sent' # <<>> /\ err' # ErrBackend)
            => LET it  == Staged(sm)
                   bad == {k \in 1..Len(it) :
                              /\ inst[it[k]].st.persistent
                              /\ reply'[k] # inst[it[k]].id}
               IN  /\ (bad # {}) <=> (err' = ErrIdChanged)
                   /\ \A k \in bad :
                          /\ inst'[it[k]].id = inst[it[k]].id
                          /\ inst'[it[k]].dbid = inst[it[k]].dbid]_vars

C7_Witness ==
    /\ last \in Commits /\ err = ErrIdChanged
    /\ \E i \in Instances : inst[i].dbid # 0 /\ inst[i].id \notin
           {reply[k] : k \in DOMAIN reply}

\* C8: add() of an instance whose state is marked deleted raises the 'State
\* is deleted' error and changes no partition and no staged delete query.
C8_AddDeletedRejected ==
    [][last' = "add" =>
        \A i \in Instances, modified \in BOOLEAN :
            (inst[i].st.has /\ inst[i].st.deleted /\ AddOf(i, modified))
                => (err' = ErrDeleted /\ sm' = sm)]_vars

C8_Witness ==
    /\ last = "add" /\ err = ErrDeleted
    /\ \E i \in Values(sm.deleted) : inst[i].st.deleted

\* C9: expunge takes the identity token of its argument out of every
\* partition, keeps every other entry where it was, returns whether a
\* partition held the token, and expunging again changes nothing and
\* returns false.
C9_ExpungeIdempotent ==
    [][last' = "expunge" =>
       \A key \in Ids \cup {NewToken(i) : i \in Instances} :
        (\/ ExpungeIdOf(key)
         \/ \E i \in Instances :
                ExpungeOf(i) /\ state(Heap, i, FALSE).inst[i].st.iid = key)
            => (/\ key \notin AllKeys(sm')
                /\ sm'.new = Without(sm.new, key)
                /\ sm'.modified = Without(sm.modified, key)
                /\ sm'.deleted = Without(sm.deleted, key)
                /\ sm'.loaded = {e \in sm.loaded : e[1] # key}
                /\ sm'.delete_query = sm.delete_query
                /\ ret' = (key \in AllKeys(sm))
                /\ SM_expunge_iid(Heap, key)'.sm = sm'
                /\ ~SM_expunge_iid(Heap, key)'.r)]_vars

C9_Witness ==
    /\ last = "expunge" /\ ret
    /\ Tracked(sm) # {}

\* C10: delete() of an instance held in loaded or modified leaves it in the
\* deleted partition only, marked deleted; delete() of an instance held in
\* new leaves it in no partition and in no delete query and sends nothing;
\* and an instance the store never held that is in no partition and in no
\* delete query is in no pipeline and in no delete query after any step.
C10_DeleteTransitions ==
    [][/\ \A i \in Instances :
            (last' = "delete" /\ DeleteOf(i)) =>
                /\ i \in Values(sm.modified) \cup DValues(sm.loaded)
                    => (/\ i \in Values(sm'.deleted)
                        /\ i \notin Values(sm'.new) \cup Values(sm'.modified)
                                    \cup DValues(sm'.loaded)
                        /\ inst'[i].st.deleted)
                /\ i \in Values(sm.new)
                    => (/\ i \notin Tracked(sm')
                        /\ i \notin QueryInsts(sm')
                        /\ sent' = <<>>)
       /\ \A i \in Instances :
            (i \notin Tracked(sm) /\ i \notin QueryInsts(sm) /\ inst[i].dbid = 0)
                => (i \notin SavedInsts(sent') /\ i \notin QueryInsts(sm'))]_vars

C10_Witness ==
    /\ last = "delete"
    /\ \E i, j \in Instances :
           /\ inst[i].st.has /\ ~inst[i].st.persistent /\ i \notin Tracked(sm)
           /\ j \in Values(sm.deleted) /\ inst[j].st.deleted

\* the positions of the delete commands of a pipeline
DeleteCommands(stack) == {k \in DOMAIN stack : stack[k].cmd = "delete"}

AllIds(d) == d.set[IdSet]

\* the ids that have an object hash
Stored(d) == {id \in Ids : d.obj[id] # NoHash}

\* the unique mapping and the index containers agree with the hash of id
IndexedAsStored(d, id) ==
    /\ d.uni[d.obj[id].name] = id
    /\ \A v \in Vals : v # d.obj[id].name => d.uni[v] # id
    /\ id \in d.set[IdxKey("group", d.obj[id].group)]
    /\ \A v \in Vals :
           v # d.obj[id].group => id \notin d.set[IdxKey("group", v)]

\* C12: for every id of the all-ids container, the UNI mapping sends the
\* stored value of the unique field to the id and no other value to it, and
\* the id is in the IDX container of the stored value of the indexed field
\* and in no other.
C12_IndexesFollowHash ==
    \A id \in AllIds(db) : db.obj[id] # NoHash => IndexedAsStored(db, id)

\* C13: the writer applied a second time to the instance just saved, with
\* the same index entries, raises nothing and leaves the store (object
\* hashes, all-ids container, UNI mapping, IDX containers) as it was after
\* the first application.
C13_SaveTwiceSame ==
    [][last' = "save_again" => (db' = db /\ err' = "none")]_vars

\* the second application removes an old unique mapping and an old index
\* entry that are no longer there
C13_Witness ==
    /\ last = "save_again"
    /\ ops[1].kind = "update"
    /\ \E k, l \in DOMAIN ops[1].obj.indices :
           LET e == ops[1].obj.indices[k]
               f == ops[1].obj.indices[l]
           IN  /\ e.field = "name" /\ e.oldvalue \in Vals \ {e.value}
               /\ db.uni[e.oldvalue] = None
               /\ f.field = "group" /\ f.oldvalue \in Vals \ {f.value}
               /\ ops[1].obj.id \notin db.set[IdxKey("group", f.oldvalue)]

\* the queries used to look an instance up: all instances, and the
\* exact-match filter on the id, on the unique field and on the indexed
\* field
LookupQueries ==
    {NoQuery}
    \cup {Query(<<exact(name, v)>>, <<>>, <<>>, FALSE) :
              name \in {"id", "name", "group"}, v \in Vals}

\* the ids of the instances a commit deletes
DeletedIds(staged) == {staged[k].obj.id : k \in Deletes(staged)}

\* C14: after the commit that deletes a persisted instance its id is in
\* neither the all-ids container nor any IDX container, its object hash is
\* gone, no value of the unique field maps to it, and no query that
\* returned it before the commit returns it afterwards.
C14_DeletedIsGone ==
    [][(last' = "store_commit" /\ Deletes(ops') # {}) =>
          \A id \in DeletedIds(ops') :
              /\ id \in AllIds(db)
              /\ id \notin AllIds(db')
              /\ db'.obj[id] = NoHash
              /\ \A v \in Vals :
                     /\ id \notin db'.set[IdxKey("group", v)]
                     /\ db'.uni[v] # id
              /\ \A q \in LookupQueries : id \notin QueryIds(db', q)]_vars

\* a commit deleted an instance whose index values were read from the
\* store, while another instance stays stored
C14_Witness ==
    /\ last = "store_commit"
    /\ \E k \in Deletes(ops) :
           /\ ops[k].obj.dbdata = <<>>
           /\ db.obj[ops[k].obj.id] = NoHash
           /\ ops[k].obj.id \notin AllIds(db)
    /\ AllIds(db) # {}

\* C15: a query with no filter, no exclude and no join yields the ids of
\* the all-ids container.
C15_EmptyQueryIsAllIds ==
    (last = "query" /\ qry.fargs = <<>> /\ qry.eargs = <<>> /\ qry.queries = <<>>)
        => (err = "none" /\ result = AllIds(db))

\* the query without predicates was evaluated on a store of two instances
C15_Witness ==
    /\ last = "query"
    /\ qry = NoQuery
    /\ Cardinality(result) = 2
    /\ result = AllIds(db)

\* the query with the one filter p
Filter(p) == Query(<<p>>, <<>>, <<>>, FALSE)

\* C16: for the id, the unique field and the indexed field and every pair
\* of values a, b, the ids of the filter with lookup 'in' over [a, b] are
\* the union of the ids of the exact filters on a and on b, and the same as
\* the ids of the filter over [b, a].
C16_InIsUnionOfExact ==
    [][(/\ last' = "query"
        /\ qry'.eargs = <<>> /\ qry'.queries = <<>> /\ ~qry'.ordering
        /\ Len(qry'.fargs) = 1
        /\ qry'.fargs[1].lookup = "in"
        /\ Len(qry'.fargs[1].values) = 2)
       => LET name == qry'.fargs[1].name
              a    == qry'.fargs[1].values[1]
              b    == qry'.fargs[1].values[2]
          IN  /\ err' = "none"
              /\ result' = QueryIds(db, Filter(exact(name, a)))
                               \cup QueryIds(db, Filter(exact(name, b)))
              /\ result' = QueryIds(db, Filter(Predicate(name, "in", <<b, a>>)))
      ]_vars

\* a filter over two values of the indexed field found one instance by one
\* value and another instance by the other
C16_Witness ==
    /\ last = "query"
    /\ qry = Filter(Predicate("group", "in", <<1, 2>>))
    /\ Cardinality(result) = 2
    /\ \E i \in result : db.obj[i].group = 1
    /\ \E i \in result : db.obj[i].group = 2

\* C17: a query that filters on a predicate and excludes on the same
\* predicate yields no id, whatever the predicate and the store.
C17_FilterExcludeSameIsEmpty ==
    (/\ last = "query"
     /\ Len(qry.fargs) = 1
     /\ qry.eargs = qry.fargs
     /\ qry.queries = <<>>)
        => (err = "none" /\ result = {})

\* the predicate filtered and excluded matches stored instances: by the
\* indexed field, and by two values of the unique field
C17_Witness ==
    /\ last = "query"
    /\ qry.eargs = qry.fargs
    /\ qry.queries = <<>>
    /\ result = {}
    /\ \/ /\ qry.fargs = <<Predicate("group", "in", <<1>>)>>
          /\ \E i \in AllIds(db) : db.obj[i].group = 1
       \/ /\ qry.fargs = <<Predicate("name", "in", <<1, 2>>)>>
          /\ Cardinality(AllIds(db)) = 2

\* the predicates of a query, filters and excludes
Compiled(q) ==
    {q.fargs[k] : k \in DOMAIN q.fargs} \cup {q.eargs[k] : k \in DOMAIN q.eargs}

\* C18: a query compiled by _query with a predicate whose lookup is not
\* 'in' (exact being 'in' over one value) raises a compiler error, whether
\* the field is unique or not and whether it has one value or several, and
\* no set operation of the query reaches the store; a query whose lookups
\* are all 'in' raises no such error.
C18_UnsupportedLookupRaises ==
    (last = "query" /\ ~simple(qry))
        => IF \E p \in Compiled(qry) : p.lookup # "in"
           THEN err \in {ErrNotAvailable, ErrLookup} /\ LiveTemp(db) = {}
           ELSE err \notin {ErrNotAvailable, ErrLookup}

\* the commands staged on the pipelines of the last query
StagedCommands(stacks) ==
    UNION {{stacks[n][k] : k \in DOMAIN stacks[n]} : n \in DOMAIN stacks}

\* the joins of a query whose model lives in another database
Foreign(q) == {k \in DOMAIN q.queries : q.queries[k].db # PipeDb}

\* C19: a query with a join whose model lives in a database other than the
\* one of the query fails with the error of build_from_query; no key is
\* moved between databases, no projection of that join is staged, and the
\* store is left without any key of the query.
C19_ForeignJoinRejected ==
    (last = "query" /\ Foreign(qry) # {})
        => /\ err = ErrDatabase
           /\ result = {}
           /\ \A c \in StagedCommands(pipes) :
                  /\ c.cmd # "move"
                  /\ \A k \in Foreign(qry) :
                         ~(c.cmd = "sort" /\ c.src = <<JoinKey(k)>>)
           /\ LiveTemp(db) = {}

\* the second join of a query is in another database: the projection of
\* the first was staged, and nothing was executed
C19_Witness ==
    /\ last = "query"
    /\ Len(qry.queries) = 2
    /\ Foreign(qry) = {2}
    /\ err = ErrDatabase
    /\ \E c \in StagedCommands(pipes) : c.cmd = "sort" /\ c.src = <<JoinKey(1)>>
    /\ LiveTemp(db) = {}

\* the command writes a temporary key
WritesTemp(c) ==
    /\ c.cmd \in {"sadd", "sinterstore", "sunionstore", "sdiffstore",
                  "sort", "sortby"}
    /\ c.key \in TempKeys

\* the k-th command of the pipeline is the first one to write its key
CreatesTemp(stack, k) ==
    /\ WritesTemp(stack[k])
    /\ \A j \in 1..(k - 1) : stack[j].key # stack[k].key

\* the command after the k-th schedules the expiry of the key it wrote
ExpireNext(stack, k) ==
    k < Len(stack) /\ stack[k + 1] = EXPIRE(stack[k].key, expire)

\* the command after the k-th adds another member to the same key
AddNext(stack, k) ==
    /\ k < Len(stack)
    /\ stack[k].cmd = "sadd"
    /\ stack[k + 1].cmd = "sadd"
    /\ stack[k + 1].key = stack[k].key

\* C20: the expiry is positive; in every pipeline of a query each command
\* that writes a temporary key is followed, in the same pipeline, by the
\* expire of that key with the configured expiry, directly or after the
\* further adds that fill the same key; and after the pipelines ran every
\* temporary key that exists has the configured time to live.
C20_TempKeysExpire ==
    last = "query"
        => /\ expire > 0
           /\ \A n \in DOMAIN pipes : \A k \in DOMAIN pipes[n] :
                  WritesTemp(pipes[n][k])
                      => (ExpireNext(pipes[n], k) \/ AddNext(pipes[n], k))
           /\ \A key \in LiveTemp(db) : db.ttl[key] = expire

\* C20 as stated: the expire is staged directly after the command that
\* creates the temporary key.
C20_ExpireDirectlyAfterCreation ==
    last = "query"
        => \A n \in DOMAIN pipes : \A k \in DOMAIN pipes[n] :
               CreatesTemp(pipes[n], k) => ExpireNext(pipes[n], k)

\* a query with an ordering ran two pipelines: the one of build, with a
\* key filled by two adds and then expired and a key made by a set
\* operation, and the one of order; the keys exist and have a time to live
C20_Witness ==
    /\ last = "query"
    /\ Len(pipes) = 2
    /\ \E k \in DOMAIN pipes[1] :
           /\ CreatesTemp(pipes[1], k)
           /\ AddNext(pipes[1], k)
           /\ ExpireNext(pipes[1], k + 1)
    /\ \E k \in DOMAIN pipes[1] :
           pipes[1][k].cmd = "sinterstore" /\ ExpireNext(pipes[1], k)
    /\ \E k \in DOMAIN pipes[2] :
           pipes[2][k].cmd = "sortby" /\ ExpireNext(pipes[2], k)
    /\ Cardinality(LiveTemp(db)) >= 3
    /\ \A key \in LiveTemp(db) : db.ttl[key] = expire

\* the ids the set-engine path of build yields for the query q
SetPathIds(d, q) == ItemIds(d, q, BuildSet(d, q))

\* the ids the in-memory path of build yields for the filters of q
SimplePathIds(d, q) ==
    ItemIds(d, q, BuildSimple(d, SimpleIds(d, q.fargs)))

\* the query has filters only, each over the primary key or a unique field
\* with lookup 'in', no two over the same field
UniqueFilters(q) ==
    /\ q.fargs # <<>>
    /\ \A k, l \in DOMAIN q.fargs : k # l => q.fargs[k].name # q.fargs[l].name
    /\ \A k \in DOMAIN q.fargs : q.fargs[k].unique /\ q.fargs[k].lookup = "in"
    /\ q.eargs = <<>>
    /\ q.queries = <<>>
    /\ ~q.ordering

\* C21: for the same filters over the primary key and unique fields, one
\* or several, and the same store, the in-memory path and the set-engine
\* path of build yield the same ids.
C21_PathsAgree ==
    [][(last' = "query" /\ UniqueFilters(qry'))
          => /\ result' = SimplePathIds(db, qry')
             /\ SimplePathIds(db, qry') = SetPathIds(db, qry')]_vars

\* C22: clients with the same connection tuple have the same pool and
\* clients with different tuples different pools; the registry holds the
\* pool of every client under its tuple and no pool under two tuples; a
\* client that has switched database and is back at the tuple it was built
\* with has the pool of every other client of that tuple; and as many pools
\* were made as there are tuples in use or used before.
C22_OnePoolPerTuple ==
    /\ \A i, j \in DOMAIN clients :
           (clients[i].cp = clients[j].cp) <=> (clients[i].pool = clients[j].pool)
    /\ \A i \in DOMAIN clients :
           /\ clients[i].cp \in DOMAIN connection_pools
           /\ connection_pools[clients[i].cp] = clients[i].pool
    /\ \A a, b \in DOMAIN connection_pools :
           connection_pools[a] = connection_pools[b] => a = b
    /\ npools = Cardinality(DOMAIN connection_pools)

\* the second of two clients built with the same tuple switched to another
\* database and back: it shares the pool of the first again, and two pools
\* exist
C22_Witness ==
    /\ last = "select"
    /\ ret = 2
    /\ Len(clients) = 2
    /\ clients[2].cp = clients[2].home
    /\ clients[1].cp = clients[2].cp
    /\ clients[1].pool = clients[2].pool
    /\ npools = 2

ModelSignals(sigs) == {k \in DOMAIN sigs : sigs[k].sender = "model"}

\* C24: in every commit whose pipeline was executed, the model gets one
\* post-commit notification when instances were saved and one post-delete
\* notification when instances were deleted; each is sent after the
\* instances have been reconciled and while the transaction passed along
\* still refers to its session; and no post-commit notification is sent
\* before reconciliation.
C24_NotifiedBeforeClose ==
    [][(last' \in Commits /\ err' = "none" /\ sent' # <<>>)
          => /\ \A sig \in {"post_commit", "post_delete"} :
                    Cardinality({k \in ModelSignals(signals') :
                                    signals'[k].signal = sig}) <= 1
             /\ reply' # <<>>
                    => \E k \in ModelSignals(signals') :
                           signals'[k].signal = "post_commit"
             /\ \A k \in ModelSignals(signals') :
                    signals'[k].staged = 0 /\ signals'[k].open
             /\ \A k \in DOMAIN signals' :
                    signals'[k].signal = "post_commit"
                        => signals'[k].staged = 0]_vars

\* what the call of slot c promises when it returns
Subscribed(c) ==
    \A name \in calls[c].names :
        /\ ~HasStar(name) => name \in channels
        /\ (HasStar(name) /\ name # <<"*">>) => name \in patterns

Unsubscribed(c) ==
    IF calls[c].names = {}
    THEN channels = {} /\ patterns = {} /\ calls[c].result = 0
    ELSE calls[c].names \cap (channels \cup patterns) = {}

\* C25: a subscribe or unsubscribe call results in the number of channels
\* plus patterns the handler is subscribed to when it returns; when no
\* other call on the handler ran while it was in progress, after
\* subscribe(names) every plain name is in channels and every name with a
\* '*', other than the bare '*', is in patterns, after unsubscribe(names)
\* none of the names is in either set, and after unsubscribe() both sets
\* are empty and the result is 0.
C25_SubscriptionsWhenAlone ==
    (last \in {"subscribe", "unsubscribe"})
        => /\ calls[ret].result = Cardinality(channels) + Cardinality(patterns)
           /\ ~calls[ret].overlapped
                  => IF last = "subscribe" THEN Subscribed(ret)
                     ELSE Unsubscribed(ret)

\* C25 as stated, whatever else ran while the call was in progress
C25_Subscriptions ==
    (last \in {"subscribe", "unsubscribe"})
        => /\ calls[ret].result = Cardinality(channels) + Cardinality(patterns)
           /\ IF last = "subscribe" THEN Subscribed(ret) ELSE Unsubscribed(ret)

\* a subscribe call given a channel, a pattern and the bare '*' returned,
\* alone on the handler, after waiting for two replies
C25_Witness ==
    /\ last = "subscribe"
    /\ ~calls[ret].overlapped
    /\ calls[ret].names = {<<"a">>, <<"p", "*">>, <<"*">>}
    /\ channels = {<<"a">>}
    /\ patterns = {<<"p", "*">>}
    /\ calls[ret].result = 2

\* ------------------------------------------- model with an ordering field
Unset(d, id) == d.obj[id].when = None

\* the containers of the model that are not temporary
OrderedBaseKeys == ZKeys \ {tempkey(1)}

\* an instance whose ordering value is unset is held under the sentinel
\* score, and no value scores below the sentinel
SentinelScores ==
    /\ \A id \in OrderedStored(zdb), k \in OrderedBaseKeys :
           (Unset(zdb, id) /\ id \in Members(zdb.zset[k]))
               => zscore(zdb.zset, k, id) = MIN_FLOAT
    /\ \A id \in OrderedStored(zdb) :
           Unset(zdb, id) => id \in Members(zdb.zset[IdSet])
    /\ \A v \in Vals : MIN_FLOAT <= scorefun(v)

\* in the items read last, the instances with an unset ordering value come
\* before those with a set one
UnsetBeforeSet ==
    \A i, j \in DOMAIN items :
        (Unset(zdb, items[i]) /\ ~Unset(zdb, items[j])) => i < j

\* What holds of instances that are saved once and never updated: an
\* unset ordering value is held under the sentinel score, and sorts first
\* when the ordering of the model is ascending, last when it is descending.
UnsetSortsAtTheLowEnd ==
    /\ SentinelScores
    /\ (last = "items")
           => IF zdb.desc
              THEN \A i, j \in DOMAIN items :
                      (Unset(zdb, items[i]) /\ ~Unset(zdb, items[j]))
                          => j < i
              ELSE UnsetBeforeSet

\* C26: an instance whose ordering value is unset is stored with the
\* sentinel minimum score, which is not greater than the score of any set
\* value, and in the items of every query of the model it comes before
\* every instance with a set ordering value.
C26_UnsetSortsFirst ==
    /\ SentinelScores
    /\ (last = "items") => UnsetBeforeSet

\* the score of an instance with the ordering value v
ScoreOf(v) == IF v = None THEN MIN_FLOAT ELSE scorefun(v)

\* C30: after any sequence of committed saves and updates, the score under
\* which an id is held in the all-ids container and in every index
\* container that holds it is the score of the ordering value in its hash.
C30_ScoresFollowHash ==
    \A id \in OrderedStored(zdb), k \in OrderedBaseKeys :
        id \in Members(zdb.zset[k])
            => zscore(zdb.zset, k, id) = ScoreOf(zdb.obj[id].when)

\* ------------------------------------------------------- rollback
\* C27: a transaction abandoned by rollback has no effect on the server:
\* the rollback sends nothing and leaves the store as it is, and no commit
\* of the transaction after the rollback sends any of its staged operations.
C27_RollbackHasNoEffect ==
    [][/\ \A t \in DOMAIN txs :
              RollbackOf(t) => (sent' = <<>> /\ db' = db)
       /\ (last = "rollback" /\ Len(txs) = 1)
              => \A fail \in BOOLEAN, ids \in Responses(Heap) :
                     TxCommitOf(1, fail, ids) => sent' = <<>>]_vars

\* ------------------------------------------- two sessions, one instance
\* the session s changes the field f: it writes a value other than the old
\* value it holds, read with the instance or loaded when the pipeline was
\* staged, and its pipeline removes the index entry of that old value
ChangesField(s, f) ==
    /\ \E k \in DOMAIN race[s].obj.indices : race[s].obj.indices[k].field = f
    /\ \E k \in DOMAIN race[s].stack :
           LET c == race[s].stack[k]
           IN  IF unique(f)
               THEN c.cmd = "hdel" /\ c.value # race[s].obj.data[f]
               ELSE \E v \in FieldVals \ {race[s].obj.data[f]} :
                        c.cmd = "srem" /\ c.key = IdxKey(f, v)

\* the index of the field f agrees with the hash of id: the id is in the
\* container (or is the target of the mapping) of the value in the hash
\* and of no other value
IndexFollowsHash(d, id, f) ==
    IF unique(f)
    THEN /\ d.uni[d.obj[id][f]] = id
         /\ \A v \in FieldVals : v # d.obj[id][f] => d.uni[v] # id
    ELSE /\ id \in d.set[IdxKey(f, d.obj[id][f])]
         /\ \A v \in FieldVals :
                v # d.obj[id][f] => id \notin d.set[IdxKey(f, v)]

\* C29: under every interleaving of the commits of two sessions that each
\* change the same indexed field of instance 1, after both pipelines have
\* run the id is in exactly one index container of the field (or is the
\* target of exactly one unique mapping): the one of the value in the hash.
C29_OneIndexAfterBoth ==
    (\A s \in Sessions : race[s].pc = "done")
        => \A f \in {"name", "group"} :
               (\A s \in Sessions : ChangesField(s, f))
                   => IndexFollowsHash(db, 1, f)

\* ------------------------------------------------------- set operations
\* the set of the predicate p: the ids given, or the ids of the stored
\* instances whose field has one of the values given
Selected(d, p) ==
    {id \in Ids :
        \E k \in DOMAIN p.values :
            IF p.name = "id" THEN id = p.values[k]
            ELSE id \in AllIds(d) /\ d.obj[id][p.name] = p.values[k]}

\* the ids the filters of q are applied to: all ids, or the ids every join
\* refers to
BaseIds(d, q) ==
    IF q.queries = <<>> THEN AllIds(d)
    ELSE {id \in Ids : \A k \in DOMAIN q.queries : id \in q.queries[k].ids}

\* the ids of the base that every filter of q selects and no exclude does
IncludedLessExcluded(d, q) ==
    {id \in BaseIds(d, q) :
        /\ \A k \in DOMAIN q.fargs : id \in Selected(d, q.fargs[k])
        /\ \A k \in DOMAIN q.eargs : id \notin Selected(d, q.eargs[k])}

\* the positions of the command cmd in the pipeline
Positions(stack, cmd) == {k \in DOMAIN stack : stack[k].cmd = cmd}

\* the predicates among args that make a union of their own: several
\* values of a field that is not unique
OwnUnions(args) ==
    {k \in DOMAIN args : ~args[k].unique /\ Len(args[k].values) > 1}

\* the key of the ids the filters are applied to: the all-ids container,
\* the projection of the one join, or the key the projections of several
\* joins are intersected into
BaseKey(q) ==
    IF q.queries = <<>> THEN IdSet
    ELSE IF Len(q.queries) = 1 THEN tempkey(1)
    ELSE tempkey(Len(q.queries) + 1)

\* the intersections staged that take the key of the ids as their last key
FilterIntersections(stack, q) ==
    {k \in Positions(stack, "sinterstore") :
        stack[k].src[Len(stack[k].src)] = BaseKey(q)}

\* what is staged for the excludes and what the query yields: one union
\* over the keys of the excludes when there are several, one difference of
\* the include key and the exclude key when there are excludes, none
\* otherwise; the ids are those of the base every filter selects and no
\* exclude does
ExcludesAndResult(stack, q) ==
    /\ Cardinality(Positions(stack, "sunionstore"))
           = Cardinality(OwnUnions(q.fargs)) + Cardinality(OwnUnions(q.eargs))
             + (IF Len(q.eargs) > 1 THEN 1 ELSE 0)
    /\ Len(q.eargs) > 1
           => \E k \in Positions(stack, "sunionstore") :
                  /\ Len(stack[k].src) = Len(q.eargs)
                  /\ \E j \in Positions(stack, "sdiffstore") :
                         j > k /\ stack[j].src[2] = stack[k].key
    /\ Cardinality(Positions(stack, "sdiffstore"))
           = (IF q.eargs = <<>> THEN 0 ELSE 1)
    /\ \A j \in Positions(stack, "sdiffstore") :
           /\ Len(stack[j].src) = 2
           /\ \A k \in FilterIntersections(stack, q) :
                  k < j /\ stack[j].src[1] = stack[k].key
    /\ result = IncludedLessExcluded(db, q)

\* C31: in the set-engine path, when the query has filters the compiler
\* stages exactly one intersection, over the keys of all the filters and
\* the key of the ids (all ids, or the key made from the joins), and none
\* when it has no filter; exactly one union over the keys of the excludes
\* when there are several; one difference of the include key and the
\* exclude key when there are excludes and none otherwise; and the ids are
\* (filter sets intersected with the ids) less (the union of the exclude
\* sets).
C31_OneOperationPerSide ==
    (last = "query" /\ ~simple(qry) /\ err = "none")
        => /\ Cardinality(FilterIntersections(pipes[1], qry))
                  = (IF qry.fargs = <<>> THEN 0 ELSE 1)
           /\ \A k \in FilterIntersections(pipes[1], qry) :
                  Len(pipes[1][k].src) = Len(qry.fargs) + 1
           /\ ExcludesAndResult(pipes[1], qry)

\* C31 as stated: exactly one intersection whatever the query
C31_AlwaysOneIntersection ==
    (last = "query" /\ ~simple(qry) /\ err = "none")
        => /\ Cardinality(FilterIntersections(pipes[1], qry)) = 1
           /\ \A k \in FilterIntersections(pipes[1], qry) :
                  Len(pipes[1][k].src) = Len(qry.fargs) + 1
           /\ ExcludesAndResult(pipes[1], qry)

\* a filter over two values of the indexed field with two excludes, on a
\* store where the filter selects two instances and an exclude one of them
C31_Witness ==
    /\ last = "query"
    /\ err = "none"
    /\ qry.fargs = <<Predicate("group", "in", <<1, 2>>)>>
    /\ Len(qry.eargs) = 2
    /\ Cardinality(Selected(db, qry.fargs[1])) = 2
    /\ Cardinality(result) = 1
    /\ Cardinality(Positions(pipes[1], "sinterstore")) = 1
    /\ Cardinality(Positions(pipes[1], "sunionstore")) >= 2
    /\ Cardinality(Positions(pipes[1], "sdiffstore")) = 1

\* the pipelined request is the current one and its replies are on
\* their way or parsed
Pipelined == ~WireIdle /\ proto.cur.name = ""

\* C32: a pipelined request of N commands (N+2 inside MULTI and EXEC), its
\* replies arriving in chunks of any size, reports completion once, when
\* all its replies are parsed, the k-th response being the reply to its
\* k-th command; until then feed reports that it is not done and the
\* protocol neither finishes nor releases the connection; and when no
\* byte is left on the way it has finished
C32_CompletesOnceAfterAllReplies ==
    Pipelined =>
        /\ proto.cur.feeds <= 1
        /\ proto.finished <= 1
        /\ \A k \in 1..Len(proto.cur.response) :
               proto.cur.response[k] = [id |-> Len(proto.written), k |-> k]
        /\ IF Len(proto.cur.response) < proto.cur.total
           THEN /\ ~proto.cur.done
                /\ proto.cur.feeds = 0
                /\ proto.finished = 0
                /\ ~proto.released
                /\ ~proto.cur.fired
           ELSE /\ proto.cur.done
                /\ proto.cur.feeds = 1
                /\ proto.finished = 1
                /\ proto.released
        /\ (proto.wire = <<>> /\ proto.buf = <<>>) => proto.finished = 1

\* a transaction of MaxCmds commands whose replies came in more than one
\* chunk has completed
C32_Witness ==
    /\ Pipelined
    /\ proto.cur.total = MaxCmds + 2
    /\ proto.finished = 1
    /\ proto.cur.calls > 1

\* C33: the ids read with a slice [start:stop] from the store's ordered
\* result are the Python slice [start:stop] of the whole ordered
\* sequence, whatever start and stop are
C33_SliceIsPythonSlice ==
    last = "slice" => items.ids = PySlice(items.all, items.start, items.stop)

\* ------------------------------------------------- publish / subscribe
\* the step starts a call of the operation with the names: the slot it
\* takes was free
Starts(op, names) ==
    /\ calls[ret'].pc = "idle"
    /\ calls'[ret'].op = op
    /\ calls'[ret'].names = names

\* the step is the reply to one of the commands
Answers(commands) == calls[ret'].pc \in commands

\* the step sends no command and leaves both sets as they are
NothingSent ==
    /\ calls'[ret'].pc = "idle"
    /\ channels' = channels
    /\ patterns' = patterns

\* the sets change only with the reply to the command that changes them
OnlyAfterTheAnswer ==
    /\ (channels' \ channels # {}) => Answers({"subscribe"})
    /\ (patterns' \ patterns # {}) => Answers({"psubscribe"})
    /\ (channels \ channels' # {})
           => Answers({"unsubscribe", "unsubscribe_all"})
    /\ (patterns \ patterns' # {})
           => Answers({"punsubscribe", "punsubscribe_all"})

\* C35: a channel or pattern enters the local sets only with the answer
\* to subscribe or psubscribe and leaves them only with the answer to
\* unsubscribe or punsubscribe; a subscribe whose names are all in the
\* sets already, and an unsubscribe given names, one of them at least
\* other than the bare '*', none of which is in the sets, send no command
\* and leave both sets unchanged
C35_SetsFollowAnswers ==
    [][/\ OnlyAfterTheAnswer
       /\ \A names \in SUBSET ChannelNames :
            /\ (Starts("subscribe", names)
                  /\ names \subseteq (channels \cup patterns))
                   => NothingSent
            /\ (Starts("unsubscribe", names)
                  /\ names \ {<<"*">>} # {}
                  /\ names \cap (channels \cup patterns) = {})
                   => NothingSent]_vars

\* C35 as stated: any names none of which is in the sets
C35_NoNameNoCommand ==
    [][/\ OnlyAfterTheAnswer
       /\ \A names \in SUBSET ChannelNames :
            /\ (Starts("subscribe", names)
                  /\ names \subseteq (channels \cup patterns))
                   => NothingSent
            /\ (Starts("unsubscribe", names)
                  /\ names # {}
                  /\ names \cap (channels \cup patterns) = {})
                   => NothingSent]_vars

\* a subscribe to a channel and a pattern the handler held already has
\* returned while another call waited for its answer
C35_Witness ==
    /\ last = "subscribe"
    /\ calls[ret].names = {<<"a">>, <<"p", "*">>}
    /\ channels = {<<"a">>}
    /\ patterns = {<<"p", "*">>}
    /\ \E c \in Running : calls[c].pc = "subscribe"

\* C36: the store answering in the order sent, whenever no subscribe or
\* unsubscribe call is in progress on the handler, however the calls
\* overlapped, its channels and patterns are those the store holds for
\* the connection
C36_LocalSetsAreTheServers ==
    Running = {} => /\ channels = subs.channels
                    /\ patterns = subs.patterns

\* the last call in progress, an unsubscribe that ran while another call
\* waited, has returned, and the handler holds a channel and a pattern
C36_Witness ==
    /\ Running = {}
    /\ last = "unsubscribe"
    /\ calls[ret].overlapped
    /\ channels # {}
    /\ patterns # {}

\* ------------------------------------------------------------ queries
\* C37: every id a query evaluated without error returns, on the simple
\* path or through the store's sets, with or without joins, is in the
\* container of all ids
C37_ResultWithinAllIds ==
    (last = "query" /\ err = "none") => result \subseteq AllIds(db)

\* the keys of the model that are not temporary
BaseSetKeys == SetKeys \ TempKeys

\* C38: compiling, executing and ordering a query changes temporary keys
\* only: the object hashes, the unique mappings, the index containers and
\* the container of all ids are as before, and none of them has a time to
\* live
C38_QueriesWriteTemporaryKeysOnly ==
    [][last' = "query"
         => /\ db'.obj = db.obj
            /\ db'.uni = db.uni
            /\ db'.counter = db.counter
            /\ \A k \in BaseSetKeys :
                   /\ db'.set[k] = db.set[k]
                   /\ db'.ttl[k] = 0]_vars

\* an ordered query over the sets of a store with instances has been
\* evaluated and has left temporary keys behind
C38_Witness ==
    /\ last = "query"
    /\ err = "none"
    /\ qry.ordering
    /\ qry.fargs # <<>>
    /\ Len(pipes) = 2
    /\ LiveTemp(db) # {}
    /\ AllIds(db) # {}
    /\ \E k \in TempKeys : db.ttl[k] > 0

\* ------------------------------------------------------------ session
\* the instance is in the store and the session holds it in no partition
PersistedUntracked(i) ==
    /\ inst[i].dbid # 0
    /\ i \notin Tracked(sm)

Completed ==
    {t \in DOMAIN txs' :
        txs'[t].result /\ (t \in DOMAIN txs => ~txs[t].result)}

====
